---- MODULE Spec2Model ----
(***************************************************************************)
(* Record/replay HTTP(S) test proxy (test-server).                         *)
(*                                                                         *)
(* Text is modelled as a sequence of one-character strings, so that the    *)
(* string functions of the code (Contains, ReplaceAll, the redaction       *)
(* regex, the rune conversion) are computed character by character.        *)
(* A SHA-256 digest is modelled as an ideal, collision-free hash: the      *)
(* one-element tuple holding the hashed data.  HeadSHA, which the code     *)
(* documents as the digest of an invalid request, is the empty tuple and   *)
(* so differs from the digest of every request.                            *)
(***************************************************************************)
EXTENDS Integers, Sequences, FiniteSets, TLC

\* ------------------------------------------------------------------------
\* Bounds of the model
\* ------------------------------------------------------------------------
MaxRequests == 3
MaxRecorded == 2
MaxNameLen == 3
MaxFrames == 2
MaxEndpoints == 4

\* ------------------------------------------------------------------------
\* Go string helpers (package strings)
\* ------------------------------------------------------------------------
HasPrefixAt(s, p, i) ==
    /\ i + Len(p) - 1 <= Len(s)
    /\ \A k \in 1..Len(p) : s[i + k - 1] = p[k]

Contains(s, sub) == \E i \in 1..(Len(s) + 1) : HasPrefixAt(s, sub, i)

RECURSIVE ReplaceFrom(_, _, _, _)
ReplaceFrom(s, old, new, i) ==
    IF i > Len(s) THEN <<>>
    ELSE IF HasPrefixAt(s, old, i)
         THEN new \o ReplaceFrom(s, old, new, i + Len(old))
         ELSE <<s[i]>> \o ReplaceFrom(s, old, new, i + 1)

\* strings.ReplaceAll for a non-empty old.
ReplaceAll(s, old, new) == ReplaceFrom(s, old, new, 1)

RECURSIVE Join(_, _)
Join(values, sep) ==
    IF Len(values) = 0 THEN <<>>
    ELSE IF Len(values) = 1 THEN values[1]
    ELSE values[1] \o sep \o Join(Tail(values), sep)

\* ------------------------------------------------------------------------
\* internal/redact
\* ------------------------------------------------------------------------
REDACTED == <<"R", "E", "D", "A", "C", "T", "E", "D">>

\* The compiled alternation: the non-empty secrets in insertion order.
\* The empty sequence stands for regex == nil.
NewRedact(secrets) == SelectSeq(secrets, LAMBDA x : x # <<>>)

\* Index of the first alternative matching at position i, 0 when none.
FirstAlt(alts, s, i) ==
    IF \E k \in 1..Len(alts) : HasPrefixAt(s, alts[k], i)
    THEN CHOOSE k \in 1..Len(alts) :
            /\ HasPrefixAt(s, alts[k], i)
            /\ \A j \in 1..(k - 1) : ~HasPrefixAt(s, alts[j], i)
    ELSE 0

RECURSIVE RegexReplaceFrom(_, _, _)
RegexReplaceFrom(alts, s, i) ==
    IF i > Len(s) THEN <<>>
    ELSE LET k == FirstAlt(alts, s, i)
         IN  IF k # 0
             THEN REDACTED \o RegexReplaceFrom(alts, s, i + Len(alts[k]))
             ELSE <<s[i]>> \o RegexReplaceFrom(alts, s, i + 1)

RedactString(r, input) ==
    IF r = <<>> THEN input ELSE RegexReplaceFrom(r, input, 1)

RedactBytes(r, input) ==
    IF r = <<>> THEN input ELSE RegexReplaceFrom(r, input, 1)

RedactHeaderValues(r, headers) ==
    IF r = <<>> THEN headers
    ELSE [n \in DOMAIN headers |->
            [i \in 1..Len(headers[n]) |-> RegexReplaceFrom(r, headers[n][i], 1)]]

\* ------------------------------------------------------------------------
\* internal/config: the endpoint configuration and the configured secrets
\* ------------------------------------------------------------------------
HealthPath == <<"/", "h">>

EndpointConfig ==
    [TargetHost |-> <<"u">>, TargetPort |-> 443, TargetType |-> <<"s">>,
     Health |-> HealthPath,
     RedactRequestHeaders |-> <<"Authorization">>]

\* TEST_SERVER_SECRETS split on commas; an empty item is ignored by NewRedact.
Secrets == << <<"s", "k">>, <<>> >>

Redactor == NewRedact(Secrets)

\* ------------------------------------------------------------------------
\* internal/store
\* ------------------------------------------------------------------------
HeadSHA == <<>>

\* sha256.Sum256 followed by hex.EncodeToString, taken as collision free.
Sha256Hex(data) == <<data>>

RequestLine(req) == req.Method \o <<" ">> \o req.URL \o <<" ">> \o req.Proto

\* NewRecordedRequest with readBody: the body is drained and restored, the
\* headers are cloned; a failing body reader makes the construction fail.
NewRecordedRequest(req, previousRequest, cfg) ==
    IF req.BodyFails
    THEN [err |-> TRUE, rr |-> <<>>]
    ELSE [err |-> FALSE,
          rr |-> [Request |-> RequestLine(req),
                  Header |-> req.Header,
                  Body |-> req.Body,
                  PreviousRequest |-> previousRequest,
                  ServerAddress |-> cfg.TargetHost,
                  Port |-> cfg.TargetPort,
                  Protocol |-> cfg.TargetType]]

\* http.Header.Del for every name of the deny list.
RedactHeaders(rr, headers) ==
    [rr EXCEPT !.Header =
        [n \in (DOMAIN rr.Header) \ {headers[i] : i \in 1..Len(headers)} |->
            rr.Header[n]]]

\* Digest over json.Marshal(Header) followed by Body: the request line, the
\* previous request and the endpoint metadata are not part of the data.
ComputeSumHeaderBody(rr) == Sha256Hex([Header |-> rr.Header, Body |-> rr.Body])

\* json.MarshalIndent of the whole request; map keys are emitted sorted, so
\* the text is a function of the field values.
Serialize(rr) ==
    [request |-> rr.Request, headers |-> rr.Header, body |-> rr.Body,
     previousRequest |-> rr.PreviousRequest,
     serverAddress |-> rr.ServerAddress, port |-> rr.Port,
     protocol |-> rr.Protocol]

\* Digest over the serialized request.
ComputeSum(rr) == Sha256Hex(Serialize(rr))

GetHeadersMap(header) ==
    [n \in DOMAIN header |-> Join(header[n], <<",", " ">>)]

\* A recording file name: either a sanitized test name or a digest in hex.
TestFile(name) == [name |-> name, sha |-> HeadSHA]
ShaFile(sum) == [name |-> <<>>, sha |-> sum]

TestNameOf(rr) ==
    LET h == GetHeadersMap(rr.Header)
    IN  IF "Test-Name" \in DOMAIN h THEN h["Test-Name"] ELSE <<>>

\* A name resolution that does not look for "../".
GetRecordingFileNameUnchecked(rr) ==
    LET testName == TestNameOf(rr)
    IN  IF testName # <<>>
        THEN [err |-> FALSE,
              fileName |-> TestFile(ReplaceAll(testName, <<" ">>, <<"_">>))]
        ELSE [err |-> FALSE, fileName |-> ShaFile(ComputeSum(rr))]

GetRecordingFileName(rr) ==
    LET testName == TestNameOf(rr)
    IN  IF Contains(testName, <<".", ".", "/">>)
        THEN [err |-> TRUE, fileName |-> ShaFile(HeadSHA)]
        ELSE IF testName # <<>>
             THEN [err |-> FALSE,
                   fileName |-> TestFile(ReplaceAll(testName, <<" ">>, <<"_">>))]
             ELSE [err |-> FALSE, fileName |-> ShaFile(ComputeSum(rr))]

\* ------------------------------------------------------------------------
\* State
\* ------------------------------------------------------------------------
VARIABLES
    mode,                  \* which engine the process runs
    prevRequestSHA,        \* ReplayHTTPServer.prevRequestSHA
    seenFiles,             \* ReplayHTTPServer.seenFiles
    recordingDir,          \* the files of the recording directory
    replayLog,             \* one entry per request handled by the replay server
    wsConn,                \* the WebSocket connection being replayed, if any
    recordPrevRequestSHA,  \* RecordingHTTPSProxy.prevRequestSHA
    recordLog,             \* one entry per request handled by the recording proxy
    recordWs,              \* the WebSocket session the recording proxy relays
    nameCall,              \* a call of GetRecordingFileName: its receiver and result
    storeCall,             \* a call of a function of the store or redact package
    proxy,                 \* the goroutines, channels and connections of proxyWebsocket
    replayRun,             \* a run of Replay: its goroutines and its error channel
    handlers               \* the goroutines of net/http that run handleRequest

vars == <<mode, prevRequestSHA, seenFiles, recordingDir, replayLog, wsConn,
          recordPrevRequestSHA, recordLog, recordWs, nameCall, storeCall, proxy, replayRun, handlers>>

replayVars == <<prevRequestSHA, seenFiles, replayLog, wsConn>>
recordVars == <<recordPrevRequestSHA, recordLog, recordWs>>

\* ------------------------------------------------------------------------
\* The recording directory: a function from file keys to contents
\* ------------------------------------------------------------------------
FileKey(base, ext) == [base |-> base, ext |-> ext]

EmptyDir == [k \in {} |-> <<>>]

\* ------------------------------------------------------------------------
\* internal/replay: HTTP
\* ------------------------------------------------------------------------
NoHeader == [n \in {} |-> <<>>]

PlainReply(status, error) ==
    [status |-> status, header |-> NoHeader, body |-> <<>>, error |-> error]

\* createRedactedRequest, with the chain head passed in.
CreateRedactedRequest(req, prev, cfg, redactor) ==
    LET nr == NewRecordedRequest(req, prev, cfg)
    IN  IF nr.err THEN nr
        ELSE LET r1 == RedactHeaders(nr.rr, cfg.RedactRequestHeaders)
                 r2 == [r1 EXCEPT !.Header = RedactHeaderValues(redactor, r1.Header)]
                 r3 == [r2 EXCEPT !.Request = RedactString(redactor, r2.Request)]
                 r4 == [r3 EXCEPT !.Body = RedactBytes(redactor, r3.Body)]
             IN  [err |-> FALSE, rr |-> r4]

\* DeserializeResponse on the payload of a catalog entry.
DeserializeResponse(data) ==
    IF data.wellFormed
    THEN [err |-> "", resp |-> [StatusCode |-> data.StatusCode,
                                Header |-> data.Header, Body |-> data.Body]]
    ELSE [err |-> "invalid serialized data", resp |-> <<>>]

\* loadResponse: open <fileName>.http.log and return the payload of the
\* first catalog entry whose key is <shaSum>.resp.
LoadResponse(dir, fileName, shaSum) ==
    LET key == FileKey(fileName, "http.log")
    IN  IF key \notin DOMAIN dir
        THEN [err |-> "could not open file", resp |-> <<>>]
        ELSE LET entries == dir[key]
                 hits == {i \in 1..Len(entries) :
                             entries[i].fileKey = [sha |-> shaSum, ext |-> "resp"]}
             IN  IF hits = {}
                 THEN [err |-> "not found in file", resp |-> <<>>]
                 ELSE LET first == CHOOSE i \in hits : \A j \in hits : i <= j
                      IN  DeserializeResponse(entries[first].payload)

\* A response written with every recorded header.
WriteResponseAllHeaders(resp) ==
    [status |-> resp.StatusCode, header |-> resp.Header, body |-> resp.Body,
     error |-> ""]

\* writeResponse: every recorded header value except Content-Length and
\* Content-Encoding, the status code, the body.
WriteResponse(resp) ==
    [status |-> resp.StatusCode,
     header |-> [n \in (DOMAIN resp.Header) \ {"Content-Length", "Content-Encoding"}
                    |-> resp.Header[n]],
     body |-> resp.Body,
     error |-> ""]

\* http.Header.Get(name) == value
HeaderIs(req, name, value) ==
    /\ name \in DOMAIN req.Header
    /\ Len(req.Header[name]) > 0
    /\ req.Header[name][1] = value

WebsocketToken == <<"w", "s">>

\* ------------------------------------------------------------------------
\* internal/replay: WebSocket transcript
\* ------------------------------------------------------------------------
Digits == <<"0", "1", "2", "3", "4", "5", "6", "7", "8", "9">>

IsDigit(c) == \E k \in 1..10 : Digits[k] = c

DigitVal(c) == (CHOOSE k \in 1..10 : Digits[k] = c) - 1

RECURSIVE Atoi(_)
Atoi(str) ==
    IF Len(str) = 0 THEN 0
    ELSE 10 * Atoi(SubSeq(str, 1, Len(str) - 1)) + DigitVal(str[Len(str)])

\* Positions are 1-based here: position p stands for the index p - 1 of the
\* code.  DigitsEnd is the cursor after the loop of extractNumber.
RECURSIVE DigitsEnd(_, _)
DigitsEnd(content, p) ==
    IF p <= Len(content) /\ IsDigit(content[p])
    THEN DigitsEnd(content, p + 1)
    ELSE p

ExtractNumber(content, p) ==
    LET q == DigitsEnd(content, p)
    IN  IF q = p
        THEN [err |-> TRUE, num |-> 0, next |-> q]
        ELSE [err |-> FALSE, num |-> Atoi(SubSeq(content, p, q - 1)), next |-> q]

\* The loop of loadWebsocketChunks from cursor p with the chunks found so
\* far.  A declared length of 0 makes the slice bounds run backwards, which
\* is a run-time panic in Go.
RECURSIVE ChunkLoop(_, _, _)
ChunkLoop(response, p, chunks) ==
    IF p > Len(response)
    THEN [err |-> "", chunks |-> chunks]
    ELSE LET prefix == response[p]
         IN  IF prefix # ">" /\ prefix # "<"
             THEN [err |-> "invalid message prefix", chunks |-> <<>>]
             ELSE LET n == ExtractNumber(response, p + 1)
                      chunkStart == n.next + 1
                      chunkEnd == chunkStart + n.num
                  IN  IF n.err
                      THEN [err |-> "failed to extract number", chunks |-> <<>>]
                      ELSE IF chunkEnd - 1 > Len(response)
                      THEN [err |-> "exceeds response bounds", chunks |-> <<>>]
                      ELSE IF n.num = 0
                      THEN [err |-> "panic", chunks |-> <<>>]
                      ELSE ChunkLoop(response, chunkEnd,
                             Append(chunks,
                                <<prefix>> \o SubSeq(response, chunkStart, chunkEnd - 2)))

LoadWebsocketChunks(dir, fileName) ==
    LET key == FileKey(fileName, "websocket.log")
    IN  IF key \notin DOMAIN dir
        THEN [err |-> "no such file", chunks |-> <<>>]
        ELSE ChunkLoop(dir[key], 1, <<>>)

\* string([]rune(chunk)[1:]): the chunk is decoded as UTF-8 and encoded
\* again without its first rune.  A byte that is not valid UTF-8 (xFF here)
\* decodes to U+FFFD, which encodes as the three bytes EF BF BD.
RuneTail(chunk) ==
    ReplaceAll(Tail(chunk), <<"xFF">>, <<"xEF", "xBF", "xBD">>)

IdleConn == [active |-> FALSE, chunks |-> <<>>, pos |-> 1, events |-> <<>>]

\* No WebSocket session has been relayed by the recording proxy.
NoSession == [open |-> FALSE, base |-> ShaFile(HeadSHA), frames |-> <<>>]

\* ------------------------------------------------------------------------
\* ReplayHTTPServer.handleRequest
\* ------------------------------------------------------------------------
LogEntry(req, prevBefore, outcome, fileName, seenBefore, hashedPrev, shaSum, reply) ==
    [req |-> req, prevBefore |-> prevBefore, outcome |-> outcome, fileName |-> fileName,
     seenBefore |-> seenBefore, hashedPrev |-> hashedPrev,
     shaSum |-> shaSum, reply |-> reply]

NoFile == ShaFile(HeadSHA)

\* A chain head that advances after every response.
AdvanceChainAlways(prev, fileName, shaSum) == shaSum

\* The chain head after a response has been found and written.
AdvanceChain(prev, fileName, shaSum) ==
    IF fileName # ShaFile(shaSum) THEN shaSum ELSE prev

\* A lookup that keeps the chain head of the server in every case.
ResetNever(rr, fileName, seen) == rr

\* The request whose digest is looked up: PreviousRequest is reset to the
\* head sentinel when the file name has not been seen yet.
ResetOnFirstSeen(rr, fileName, seen) ==
    IF fileName \notin seen
    THEN [rr EXCEPT !.PreviousRequest = HeadSHA]
    ELSE rr

\* A server that has no health path.
IsHealthCheckNever(req, cfg) == FALSE

\* The request is for the health path of the endpoint.
IsHealthCheck(req, cfg) == req.URL = cfg.Health

\* A return that marks the file name as seen without a response.
ReturnMarked(e, prev, seen) ==
    [entry |-> e, prev |-> prev, seen |-> seen \cup {e.fileName}, ws |-> IdleConn]

\* A return of handleRequest before the response has been written: the
\* fields of the server keep their values.
ReturnEarly(e, prev, seen) ==
    [entry |-> e, prev |-> prev, seen |-> seen, ws |-> IdleConn]

\* The outcome of one call of handleRequest: the log entry, the new chain
\* head, the new seen set and the WebSocket connection it starts, if any.
\* upgradeFails and writeFails are the failures of the client connection.
ReplayOutcome(req, prev, seen, dir, upgradeFails, writeFails) ==
    LET cfg == EndpointConfig
        same(e) == ReturnEarly(e, prev, seen)
        cr == CreateRedactedRequest(req, prev, cfg, Redactor)
    IN
    IF IsHealthCheck(req, cfg)
    THEN same(LogEntry(req, prev, "health", NoFile, FALSE, HeadSHA, HeadSHA,
                       PlainReply(200, "")))
    ELSE IF cr.err
    THEN same(LogEntry(req, prev, "request error", NoFile, FALSE, HeadSHA, HeadSHA,
                       PlainReply(500, "Error processing request")))
    ELSE
    LET fn == GetRecordingFileName(cr.rr) IN
    IF fn.err
    THEN same(LogEntry(req, prev, "name error", NoFile, FALSE, HeadSHA, HeadSHA,
                       PlainReply(500, "Invalid recording file name")))
    ELSE
    LET fileName == fn.fileName
        seenBefore == fileName \in seen
        redactedReq == ResetOnFirstSeen(cr.rr, fileName, seen)
    IN
    IF HeaderIs(req, "Upgrade", WebsocketToken)
    THEN LET lc == LoadWebsocketChunks(dir, fileName) IN
         IF lc.err = "panic"
         THEN same(LogEntry(req, prev, "websocket panic", fileName, seenBefore,
                            redactedReq.PreviousRequest, HeadSHA,
                            PlainReply(0, "")))
         ELSE IF lc.err # ""
         THEN same(LogEntry(req, prev, "websocket error", fileName, seenBefore,
                            redactedReq.PreviousRequest, HeadSHA,
                            PlainReply(500, "Error loading websocket response")))
         ELSE IF upgradeFails
         THEN same(LogEntry(req, prev, "upgrade error", fileName, seenBefore,
                            redactedReq.PreviousRequest, HeadSHA,
                            PlainReply(500, "Error proxying websocket")))
         ELSE [entry |-> LogEntry(req, prev, "websocket", fileName, seenBefore,
                                  redactedReq.PreviousRequest, HeadSHA,
                                  PlainReply(101, "")),
               prev |-> prev, seen |-> seen,
               ws |-> [active |-> TRUE, chunks |-> lc.chunks, pos |-> 1,
                       events |-> <<>>]]
    ELSE
    LET sum == ComputeSum(redactedReq)
        lr == LoadResponse(dir, fileName, sum)
    IN
    IF lr.err # ""
    THEN same(LogEntry(req, prev, IF lr.err = "invalid serialized data"
                            THEN "load error" ELSE "not found",
                       fileName, seenBefore, redactedReq.PreviousRequest, sum,
                       PlainReply(500, "Error loading response")))
    ELSE IF writeFails
    THEN same(LogEntry(req, prev, "panic", fileName, seenBefore,
                       redactedReq.PreviousRequest, sum,
                       [WriteResponse(lr.resp) EXCEPT !.body = <<>>]))
    ELSE [entry |-> LogEntry(req, prev, "ok", fileName, seenBefore,
                             redactedReq.PreviousRequest, sum,
                             WriteResponse(lr.resp)),
          prev |-> AdvanceChain(prev, fileName, sum),
          seen |-> seen \cup {fileName},
          ws |-> IdleConn]

\* ------------------------------------------------------------------------
\* The requests the clients send
\* ------------------------------------------------------------------------
GET == <<"G", "E", "T">>
POST == <<"P", "O", "S", "T">>
HTTP11 == <<"H", "1">>

TestA == <<"t">>
TestB == <<"a", " ", "b">>
TestBad == <<".", ".", "/", "x">>

Request(method, url, header, body) ==
    [Method |-> method, URL |-> url, Proto |-> HTTP11, Header |-> header,
     Body |-> body, BodyFails |-> FALSE]

ReqPlain == Request(GET, <<"/">>, NoHeader, <<>>)
ReqA == Request(GET, <<"/">>, "Test-Name" :> <<TestA>>, <<>>)
ReqAPost == Request(POST, <<"/">>, "Test-Name" :> <<TestA>>, <<"b">>)
ReqB == Request(GET, <<"/">>, "Test-Name" :> <<TestB>>, <<>>)
ReqBad == Request(GET, <<"/">>, "Test-Name" :> <<TestBad>>, <<>>)
ReqHealth == Request(GET, HealthPath, NoHeader, <<>>)
ReqSecret ==
    Request(POST, <<"/">>,
            ("Authorization" :> << <<"t", "o", "k">> >>) @@ ("X-Key" :> << <<"s", "k">> >>),
            <<"s", "k", "b">>)
ReqBodyFails == [ReqPlain EXCEPT !.BodyFails = TRUE]
ReqHealthBodyFails == [ReqHealth EXCEPT !.BodyFails = TRUE]
ReqWsA ==
    Request(GET, <<"/">>,
            ("Test-Name" :> <<TestA>>) @@ ("Upgrade" :> <<WebsocketToken>>), <<>>)
ReqWsB ==
    Request(GET, <<"/">>,
            ("Test-Name" :> <<TestB>>) @@ ("Upgrade" :> <<WebsocketToken>>), <<>>)

HTTPRequests ==
    <<ReqPlain, ReqA, ReqAPost, ReqB, ReqBad, ReqHealth, ReqSecret, ReqBodyFails>>

ReplayRequests == HTTPRequests \o <<ReqWsA, ReqWsB, ReqHealthBodyFails>>

\* ------------------------------------------------------------------------
\* The recording directories the replay server is started on
\* ------------------------------------------------------------------------
RespOK ==
    [StatusCode |-> 200,
     Header |-> ("X-Test" :> << <<"1">>, <<"2">> >>)
                @@ ("Content-Length" :> << <<"2">> >>),
     Body |-> <<"o", "k">>, wellFormed |-> TRUE]
RespCreated ==
    [StatusCode |-> 201,
     Header |-> ("Content-Encoding" :> << <<"g">> >>),
     Body |-> <<"n">>, wellFormed |-> TRUE]
RespBroken == [RespOK EXCEPT !.wellFormed = FALSE]

\* The payload of a <sha>.req entry; it is skipped, never deserialized.
RequestPayload == [RespOK EXCEPT !.wellFormed = FALSE]

CatalogEntry(sum, ext, payload) ==
    [fileKey |-> [sha |-> sum, ext |-> ext], payload |-> payload]

\* The digest of req when it is hashed with chain head prev.
SumOf(req, prev) ==
    ComputeSum(CreateRedactedRequest(req, prev, EndpointConfig, Redactor).rr)

\* The catalog of one test: the requests reqs chained from the head sentinel,
\* answered in turn by the responses resps.
RECURSIVE ChainCatalog(_, _, _)
ChainCatalog(reqs, resps, prev) ==
    IF Len(reqs) = 0 THEN <<>>
    ELSE LET sum == SumOf(reqs[1], prev)
         IN  <<CatalogEntry(sum, "req", RequestPayload),
               CatalogEntry(sum, "resp", resps[1])>>
             \o ChainCatalog(Tail(reqs), Tail(resps), sum)

TranscriptHW == <<">", "2", "\n", "h", "\n", "<", "2", "\n", "w", "\n">>
TranscriptWHV ==
    <<"<", "2", "\n", "w", "\n", ">", "2", "\n", "h", "\n", "<", "2", "\n", "v", "\n">>
TranscriptBinary == <<">", "2", "\n", "xFF", "\n", "<", "2", "\n", "w", "\n">>
TranscriptNoLength == <<">", "h">>
TranscriptZero == <<">", "0", "\n", "\n">>
TranscriptRedacted == <<">", "9", "\n">> \o REDACTED \o <<"\n">>

DirChained ==
    (FileKey(TestFile(<<"t">>), "http.log") :>
        ChainCatalog(<<ReqA, ReqA, ReqAPost>>, <<RespOK, RespCreated, RespOK>>, HeadSHA))
    @@ (FileKey(TestFile(<<"a", "_", "b">>), "http.log") :>
        ChainCatalog(<<ReqB, ReqB>>, <<RespCreated, RespOK>>, HeadSHA))
    @@ (FileKey(ShaFile(SumOf(ReqPlain, HeadSHA)), "http.log") :>
        ChainCatalog(<<ReqPlain>>, <<RespOK>>, HeadSHA))
    @@ (FileKey(TestFile(<<"t">>), "websocket.log") :> TranscriptHW)
    @@ (FileKey(TestFile(<<"a", "_", "b">>), "websocket.log") :> TranscriptBinary)

DirMixed ==
    (FileKey(TestFile(<<"t">>), "http.log") :>
        ChainCatalog(<<ReqAPost, ReqA>>, <<RespCreated, RespBroken>>, HeadSHA))
    @@ (FileKey(ShaFile(SumOf(ReqSecret, HeadSHA)), "http.log") :>
        ChainCatalog(<<ReqSecret>>, <<RespCreated>>, HeadSHA))
    @@ (FileKey(ShaFile(SumOf(ReqPlain, HeadSHA)), "http.log") :>
        ChainCatalog(<<ReqPlain>>, <<RespOK>>, HeadSHA))
    @@ (FileKey(ShaFile(SumOf(ReqPlain, SumOf(ReqAPost, HeadSHA))), "http.log") :>
        ChainCatalog(<<ReqPlain>>, <<RespOK>>, HeadSHA))
    @@ (FileKey(TestFile(<<"t">>), "websocket.log") :> TranscriptWHV)
    @@ (FileKey(TestFile(<<"a", "_", "b">>), "websocket.log") :> TranscriptNoLength)

DirBroken ==
    (FileKey(TestFile(<<"t">>), "websocket.log") :> TranscriptZero)
    @@ (FileKey(TestFile(<<"a", "_", "b">>), "websocket.log") :> TranscriptRedacted)

Recordings == <<DirChained, DirMixed, DirBroken, EmptyDir>>

\* The frames a WebSocket client sends.
ClientFrames == {<<"h">>, <<"x">>, <<"xFF">>, <<"xEF", "xBF", "xBD">>, <<"s", "k">>}

\* ------------------------------------------------------------------------
\* Replay server: actions
\* ------------------------------------------------------------------------
NoCall == [called |-> FALSE, rr |-> <<>>, result |-> <<>>]

NoStoreCall == [op |-> "none"]

\* No WebSocket upgrade is being proxied.
NoProxy == [handler |-> "none"]

\* Replay has not been called.
NoRun == [main |-> "none"]

\* No connection has been accepted.
NoHandlers == [phase |-> "none"]

\* NewReplayHTTPServer on one of the recording directories.
InitReplay ==
    /\ mode = "replay"
    /\ prevRequestSHA = HeadSHA
    /\ seenFiles = {}
    /\ \E d \in 1..Len(Recordings) : recordingDir = Recordings[d]
    /\ replayLog = <<>>
    /\ wsConn = IdleConn
    /\ recordPrevRequestSHA = HeadSHA
    /\ recordLog = <<>>
    /\ recordWs = NoSession
    /\ nameCall = NoCall
    /\ storeCall = NoStoreCall
    /\ handlers = NoHandlers
    /\ proxy = NoProxy
    /\ replayRun = NoRun

\* One request handled from start to end.  Requests are handled one at a
\* time, as the test harness is assumed to send them.
ReplayHandle(req, upgradeFails, writeFails) ==
    LET out == ReplayOutcome(req, prevRequestSHA, seenFiles, recordingDir,
                             upgradeFails, writeFails)
    IN  /\ replayLog' = Append(replayLog, out.entry)
        /\ prevRequestSHA' = out.prev
        /\ seenFiles' = out.seen
        /\ wsConn' = IF out.entry.outcome = "websocket" THEN out.ws ELSE wsConn

ReplayHandleRequest ==
    /\ mode = "replay"
    /\ ~wsConn.active
    /\ Len(replayLog) < MaxRequests
    /\ \E i \in 1..Len(ReplayRequests), upgradeFails \in BOOLEAN, writeFails \in BOOLEAN :
          ReplayHandle(ReplayRequests[i], upgradeFails, writeFails)
    /\ UNCHANGED <<mode, recordingDir, recordVars, nameCall, storeCall, proxy, replayRun, handlers>>

\* replayWebsocket, one transcript entry per step.
WsEvent(kind, pos, payload) == [kind |-> kind, pos |-> pos, payload |-> payload]

CloseReason == <<"input chunk mismatch">>

WsCurrent == wsConn.chunks[wsConn.pos]

WsAt(prefix) ==
    /\ mode = "replay"
    /\ wsConn.active
    /\ wsConn.pos <= Len(wsConn.chunks)
    /\ WsCurrent[1] = prefix

\* The frame read equals the recorded chunk as the code compares them.
FrameMatches(reqChunk, chunk) == reqChunk = RuneTail(chunk)

\* A '>' entry: a frame is read from the client and compared.
WsRead ==
    /\ WsAt(">")
    /\ \E buf \in ClientFrames :
          LET read == Append(wsConn.events, WsEvent("read", wsConn.pos, buf))
          IN  IF FrameMatches(buf, WsCurrent)
              THEN wsConn' = [wsConn EXCEPT !.events = read, !.pos = @ + 1]
              ELSE wsConn' = [wsConn EXCEPT
                                 !.events = Append(read,
                                     WsEvent("close", wsConn.pos, CloseReason)),
                                 !.active = FALSE]
    /\ UNCHANGED <<mode, prevRequestSHA, seenFiles, recordingDir, replayLog,
                   recordVars, nameCall, storeCall, proxy, replayRun, handlers>>

\* A '>' entry: reading from the client fails.
WsReadError ==
    /\ WsAt(">")
    /\ wsConn' = [wsConn EXCEPT !.active = FALSE]
    /\ UNCHANGED <<mode, prevRequestSHA, seenFiles, recordingDir, replayLog,
                   recordVars, nameCall, storeCall, proxy, replayRun, handlers>>

\* A '<' entry: the recorded payload is written as a binary frame.
WsWrite ==
    /\ WsAt("<")
    /\ \E fails \in BOOLEAN :
          IF fails
          THEN wsConn' = [wsConn EXCEPT !.active = FALSE]
          ELSE wsConn' = [wsConn EXCEPT
                             !.events = Append(@,
                                 WsEvent("write", wsConn.pos, RuneTail(WsCurrent))),
                             !.pos = @ + 1]
    /\ UNCHANGED <<mode, prevRequestSHA, seenFiles, recordingDir, replayLog,
                   recordVars, nameCall, storeCall, proxy, replayRun, handlers>>

\* The end of the transcript: replayWebsocket returns, the connection closes.
WsReturn ==
    /\ mode = "replay"
    /\ wsConn.active
    /\ wsConn.pos > Len(wsConn.chunks)
    /\ wsConn' = [wsConn EXCEPT !.active = FALSE]
    /\ UNCHANGED <<mode, prevRequestSHA, seenFiles, recordingDir, replayLog,
                   recordVars, nameCall, storeCall, proxy, replayRun, handlers>>

Next == ReplayHandleRequest \/ WsRead \/ WsReadError \/ WsWrite \/ WsReturn

Spec == InitReplay /\ [][Next]_vars

\* C31: during WebSocket replay each frame read from the live client is
\* redacted with the configured secrets before it is compared with the
\* recorded payload, so an inbound frame that holds a secret where the
\* recording holds the placeholder is accepted as a match.
C31_RedactedFrameAccepted ==
    \A m \in 1..Len(wsConn.events) :
        LET r == wsConn.events[m]
        IN  (r.kind = "read"
                /\ RedactString(Redactor, r.payload) = RuneTail(wsConn.chunks[r.pos])) =>
                ~(/\ m + 1 <= Len(wsConn.events)
                  /\ wsConn.events[m + 1].kind = "close")

\* C32: in replay the canonical request is not changed after a digest has
\* been computed from it: when the file name falls back to the content
\* digest, the resolved file name equals the digest that is used for the
\* lookup, in every chain state, also after requests with a test name have
\* advanced the chain head.
C32_FallbackNameIsLookupHash ==
    \A i \in 1..Len(replayLog) :
        LET e == replayLog[i]
        IN  (e.shaSum # HeadSHA /\ e.fileName.name = <<>>) =>
                e.fileName = ShaFile(e.shaSum)

\* The chain head is the head sentinel or the digest of a request whose
\* response was found and written; every seen file name is the file name of
\* such a request.
ChainFromWritten ==
    /\ \/ prevRequestSHA = HeadSHA
       \/ \E i \in 1..Len(replayLog) :
             replayLog[i].outcome = "ok" /\ replayLog[i].shaSum = prevRequestSHA
    /\ \A f \in seenFiles :
          \E i \in 1..Len(replayLog) :
             replayLog[i].outcome = "ok" /\ replayLog[i].fileName = f

\* C36: in every reachable replay state the chain head is the head sentinel
\* or the digest of a request whose response was found and written, and the
\* seen set holds only file names for which a response was found and
\* written; a request that ends in an error, and every step of a WebSocket
\* replay, leave both unchanged.
C36_ChainTracksWrittenResponses ==
    [][/\ ChainFromWritten'
       /\ (replayLog' # replayLog /\ replayLog'[Len(replayLog')].outcome # "ok") =>
              UNCHANGED <<prevRequestSHA, seenFiles>>
       /\ replayLog' = replayLog => UNCHANGED <<prevRequestSHA, seenFiles>>]_vars

\* The chain head is the digest of the first request; the second request
\* was not found and its file name is not in the seen set.
C36_Witness ==
    /\ Len(replayLog) = 2
    /\ replayLog[1].outcome = "ok"
    /\ prevRequestSHA = replayLog[1].shaSum
    /\ prevRequestSHA # HeadSHA
    /\ replayLog[2].outcome = "not found"
    /\ replayLog[2].fileName \notin seenFiles
    /\ ~wsConn.active

\* ------------------------------------------------------------------------
\* Replay: the chain
\* ------------------------------------------------------------------------
\* The entries of the log for which handleRequest computed a digest.
Hashed(e) == e.shaSum # HeadSHA

\* C4: in replay, the first request that resolves to a file name that is not
\* in the seen set is hashed with PreviousRequest equal to the head sentinel,
\* whatever the chain head was left at: its digest is the unchained digest.
C4_FirstSeenHashedFromHead ==
    \A i \in 1..Len(replayLog) :
        LET e == replayLog[i]
        IN  (Hashed(e) /\ ~e.seenBefore) =>
                /\ e.hashedPrev = HeadSHA
                /\ e.shaSum = SumOf(e.req, HeadSHA)

\* A request to a file not seen before is hashed while the chain head is
\* advanced, and its response is found.
C4_Witness ==
    \E i \in 1..Len(replayLog) :
        /\ replayLog[i].outcome = "ok"
        /\ ~replayLog[i].seenBefore
        /\ replayLog[i].prevBefore # HeadSHA

\* The digest of the most recent successfully replayed request before entry
\* i that resolved to file f; the head sentinel when there is none.
LastOkSum(i, f) ==
    LET js == {j \in 1..(i - 1) :
                  replayLog[j].outcome = "ok" /\ replayLog[j].fileName = f}
    IN  IF js = {} THEN HeadSHA
        ELSE replayLog[CHOOSE j \in js : \A k \in js : k <= j].shaSum

\* C5: in replay, a request resolving to an already-seen file F is hashed
\* with PreviousRequest equal to the digest of the most recent successfully
\* replayed request that resolved to F, also when requests resolving to
\* other files were replayed in between.
C5_PerFileChain ==
    \A i \in 1..Len(replayLog) :
        LET e == replayLog[i]
        IN  (Hashed(e) /\ e.seenBefore) =>
                e.hashedPrev = LastOkSum(i, e.fileName)

\* C6: in replay, after a response has been found and written, the chain head
\* is the digest of the request if and only if the resolved file name differs
\* from that digest, and is otherwise unchanged; in both cases the resolved
\* file name is added to the seen set.
C6_AdvanceOnlyForNamedFile ==
    [][(Len(replayLog') = Len(replayLog) + 1
            /\ replayLog'[Len(replayLog')].outcome = "ok") =>
        LET e == replayLog'[Len(replayLog')]
        IN  /\ e.fileName # ShaFile(e.shaSum) => prevRequestSHA' = e.shaSum
            /\ e.fileName = ShaFile(e.shaSum) => prevRequestSHA' = prevRequestSHA
            /\ prevRequestSHA' = e.shaSum => e.fileName # ShaFile(e.shaSum)
            /\ seenFiles' = seenFiles \cup {e.fileName}]_vars

\* Responses have been found and written from a file named by the digest and
\* from a file named by its test.
C6_Witness ==
    \E i, j \in 1..Len(replayLog) :
        /\ replayLog[i].outcome = "ok"
        /\ replayLog[i].fileName = ShaFile(replayLog[i].shaSum)
        /\ replayLog[j].outcome = "ok"
        /\ replayLog[j].fileName # ShaFile(replayLog[j].shaSum)

\* C7: in replay, when no interaction of the resolved file matches the
\* computed digest, or the file does not exist, the client receives a 404
\* not-found error with a descriptive message and no recorded body.
C7_NotFoundIs404 ==
    \A i \in 1..Len(replayLog) :
        replayLog[i].outcome = "not found" =>
            /\ replayLog[i].reply.status = 404
            /\ replayLog[i].reply.error # ""
            /\ replayLog[i].reply.body = <<>>

\* C15: in replay a request whose path equals the configured health path is
\* answered with status 200 and an empty body without building a canonical
\* request or reading any recording, and it leaves the chain head and the
\* seen-file set unchanged.
C15_HealthShortCircuits ==
    [][(Len(replayLog') = Len(replayLog) + 1
            /\ replayLog'[Len(replayLog')].req.URL = EndpointConfig.Health) =>
        /\ replayLog'[Len(replayLog')].reply = PlainReply(200, "")
        /\ prevRequestSHA' = prevRequestSHA
        /\ seenFiles' = seenFiles
        /\ wsConn' = wsConn]_vars

\* A health request whose body cannot be read has been answered 200 by a
\* server whose chain head is advanced and whose seen set is not empty.
C15_Witness ==
    /\ replayLog # <<>>
    /\ replayLog[Len(replayLog)].req = ReqHealthBodyFails
    /\ replayLog[Len(replayLog)].reply.status = 200
    /\ prevRequestSHA # HeadSHA
    /\ seenFiles # {}

\* The response recorded for the request of a log entry.
RecordedFor(e) == LoadResponse(recordingDir, e.fileName, e.shaSum).resp

\* C16: in replay the response written to the client never carries a
\* Content-Length or Content-Encoding header copied from the recording,
\* while every other recorded header is emitted with all of its recorded
\* values, together with the recorded status code and body.
C16_HeadersFiltered ==
    \A i \in 1..Len(replayLog) :
        LET e == replayLog[i]
        IN  e.outcome = "ok" =>
                LET rec == RecordedFor(e)
                IN  /\ "Content-Length" \notin DOMAIN e.reply.header
                    /\ "Content-Encoding" \notin DOMAIN e.reply.header
                    /\ \A n \in (DOMAIN rec.Header)
                                 \ {"Content-Length", "Content-Encoding"} :
                          /\ n \in DOMAIN e.reply.header
                          /\ e.reply.header[n] = rec.Header[n]
                    /\ DOMAIN e.reply.header \subseteq DOMAIN rec.Header
                    /\ e.reply.status = rec.StatusCode
                    /\ e.reply.body = rec.Body

\* Responses recorded with a Content-Length and a two-valued header, and
\* with a Content-Encoding header, have been written to the client.
C16_Witness ==
    \E i, j \in 1..Len(replayLog) :
        /\ replayLog[i].outcome = "ok"
        /\ "Content-Length" \in DOMAIN RecordedFor(replayLog[i]).Header
        /\ \E n \in DOMAIN replayLog[i].reply.header :
              Len(replayLog[i].reply.header[n]) = 2
        /\ replayLog[j].outcome = "ok"
        /\ "Content-Encoding" \in DOMAIN RecordedFor(replayLog[j]).Header

\* ------------------------------------------------------------------------
\* Replay: WebSocket
\* ------------------------------------------------------------------------
\* The payload recorded in a chunk: the bytes after the direction marker.
RecordedPayload(chunk) == Tail(chunk)

\* C9: during WebSocket replay the transcript is processed strictly in
\* recorded order: a recorded '<' frame at position i is written to the
\* client only after every '>' entry at a position before i has been read
\* from the live client and found equal to its recorded payload.
C9_WriteAfterMatchingReads ==
    \A k \in 1..Len(wsConn.events) :
        LET w == wsConn.events[k]
        IN  w.kind = "write" =>
                /\ \A m \in 1..(k - 1) : wsConn.events[m].pos <= w.pos
                /\ \A j \in 1..(w.pos - 1) :
                      wsConn.chunks[j][1] = ">" =>
                          \E m \in 1..(k - 1) :
                              /\ wsConn.events[m].kind = "read"
                              /\ wsConn.events[m].pos = j
                              /\ wsConn.events[m].payload =
                                     RecordedPayload(wsConn.chunks[j])

\* C10: during WebSocket replay, when a frame read from the live client
\* differs from the recorded payload of the current '>' entry, a close frame
\* carrying an error reason is sent and replay of that connection stops: no
\* later recorded '<' frame is written to the client.
C10_MismatchClosesAndStops ==
    \A m \in 1..Len(wsConn.events) :
        LET r == wsConn.events[m]
        IN  (r.kind = "read" /\ r.payload # RecordedPayload(wsConn.chunks[r.pos])) =>
                /\ ~wsConn.active
                /\ Len(wsConn.events) = m + 1
                /\ wsConn.events[m + 1].kind = "close"
                /\ wsConn.events[m + 1].payload # <<>>

\* ------------------------------------------------------------------------
\* GetRecordingFileName on its own
\* ------------------------------------------------------------------------
NameAlphabet == {"a", " ", ".", "/", "_"}

TestNames == UNION {[1..n -> NameAlphabet] : n \in 0..MaxNameLen}

\* The receivers of the call: a request without the Test-Name header, or
\* with one value of it, at the head of a chain or after another request.
NameReceivers ==
    {CreateRedactedRequest(Request(GET, <<"/">>, h, <<>>), prev,
                           EndpointConfig, Redactor).rr :
        h \in {NoHeader} \cup {"Test-Name" :> <<t>> : t \in TestNames},
        prev \in {HeadSHA, SumOf(ReqA, HeadSHA)}}

InitFileName ==
    /\ mode = "file name"
    /\ prevRequestSHA = HeadSHA
    /\ seenFiles = {}
    /\ recordingDir = EmptyDir
    /\ replayLog = <<>>
    /\ wsConn = IdleConn
    /\ recordPrevRequestSHA = HeadSHA
    /\ recordLog = <<>>
    /\ recordWs = NoSession
    /\ \E rr \in NameReceivers :
          nameCall = [called |-> FALSE, rr |-> rr, result |-> <<>>]
    /\ storeCall = NoStoreCall
    /\ handlers = NoHandlers
    /\ proxy = NoProxy
    /\ replayRun = NoRun

CallGetRecordingFileName ==
    /\ mode = "file name"
    /\ ~nameCall.called
    /\ nameCall' = [nameCall EXCEPT !.called = TRUE,
                                    !.result = GetRecordingFileName(nameCall.rr)]
    /\ UNCHANGED <<mode, recordingDir, replayVars, recordVars, storeCall, proxy, replayRun, handlers>>

SpecFileName == InitFileName /\ [][CallGetRecordingFileName]_vars

\* The value of the Test-Name header of the receiver, empty when absent.
GivenTestName ==
    IF "Test-Name" \in DOMAIN nameCall.rr.Header
    THEN nameCall.rr.Header["Test-Name"][1]
    ELSE <<>>

HasDotDotSlash(t) ==
    \E i \in 1..(Len(t) - 2) : t[i] = "." /\ t[i + 1] = "." /\ t[i + 2] = "/"

HasSpace(t) == \E i \in 1..Len(t) : t[i] = " "

ResponseHeaderReplacements ==
    << [Header |-> "Date", Regex |-> <<"9">>, Replace |-> <<"0">>] >>

ReplaceRegex(str, regex, replacement) == ReplaceAll(str, regex, replacement)

RECURSIVE ApplyReplacementsFrom(_, _, _)
ApplyReplacementsFrom(headers, rules, k) ==
    IF k > Len(rules) THEN headers
    ELSE LET rule == rules[k]
             replaced ==
                 IF rule.Header \in DOMAIN headers
                 THEN [headers EXCEPT ![rule.Header] =
                          [i \in 1..Len(@) |->
                              ReplaceRegex(@[i], rule.Regex, rule.Replace)]]
                 ELSE headers
         IN  ApplyReplacementsFrom(replaced, rules, k + 1)

\* A proxy that leaves the upstream response headers as they are.
ApplyNoReplacements(headers) == headers

ApplyResponseHeaderReplacements(headers) ==
    ApplyReplacementsFrom(headers, ResponseHeaderReplacements, 1)

\* A gzip stream is its plain text behind the byte "gz"; anything else is
\* not a gzip stream.
Gunzip(body) ==
    IF Len(body) > 0 /\ body[1] = "gz"
    THEN [err |-> FALSE, body |-> Tail(body)]
    ELSE [err |-> TRUE, body |-> <<>>]

NewRecordedResponse(resp, body) ==
    IF "Content-Encoding" \in DOMAIN resp.Header
       /\ resp.Header["Content-Encoding"][1] = <<"g", "z", "i", "p">>
    THEN LET z == Gunzip(body)
         IN  IF z.err THEN [err |-> TRUE, resp |-> <<>>]
             ELSE [err |-> FALSE,
                   resp |-> [StatusCode |-> resp.StatusCode,
                             Header |-> resp.Header, Body |-> z.body]]
    ELSE [err |-> FALSE,
          resp |-> [StatusCode |-> resp.StatusCode,
                    Header |-> resp.Header, Body |-> body]]

\* What the upstream does with a forwarded request.
Upstream(fails, bodyFails, resp) ==
    [fails |-> fails, bodyFails |-> bodyFails, resp |-> resp]

UpResponse(status, header, body) ==
    [StatusCode |-> status, Header |-> header, Body |-> body]

UpOK ==
    UpResponse(200, ("X-Test" :> << <<"1">> >>) @@ ("Date" :> << <<"9">> >>),
               <<"o", "k">>)
UpSecret == UpResponse(201, "X-Key" :> << <<"s", "k">> >>, <<"s", "k">>)
UpGzip ==
    UpResponse(200, "Content-Encoding" :> << <<"g", "z", "i", "p">> >>, <<"gz", "o">>)
UpNotGzip ==
    UpResponse(200, "Content-Encoding" :> << <<"g", "z", "i", "p">> >>, <<"o">>)

Upstreams ==
    <<Upstream(FALSE, FALSE, UpOK), Upstream(FALSE, FALSE, UpSecret),
      Upstream(FALSE, FALSE, UpGzip), Upstream(FALSE, FALSE, UpNotGzip),
      Upstream(TRUE, FALSE, UpOK), Upstream(FALSE, TRUE, UpOK)>>

RecordEntry(req, prevUsed, reqHash, outcome, forwarded, recorded, reply) ==
    [req |-> req, prevUsed |-> prevUsed, reqHash |-> reqHash,
     outcome |-> outcome, forwarded |-> forwarded, recorded |-> recorded,
     reply |-> reply]

NothingForwarded == [Method |-> <<>>, URL |-> <<>>, Header |-> NoHeader, Body |-> <<>>]
NothingRecorded == [StatusCode |-> 0, Header |-> NoHeader, Body |-> <<>>]

\* A request forwarded from the redacted copy that is recorded.
ProxyRedactedRequest(req) ==
    LET cr == CreateRedactedRequest(req, HeadSHA, EndpointConfig, Redactor)
    IN  IF cr.err THEN NothingForwarded
        ELSE [Method |-> req.Method, URL |-> req.URL,
              Header |-> cr.rr.Header, Body |-> cr.rr.Body]

\* The request proxyRequest sends upstream: the method and path of the
\* inbound request, the body read back from the reader that readBody
\* restored, and every value of every inbound header.
ProxyRequest(req) ==
    [Method |-> req.Method, URL |-> req.URL,
     Header |-> [n \in DOMAIN req.Header |->
                    [i \in 1..Len(req.Header[n]) |-> req.Header[n][i]]],
     Body |-> req.Body]

\* The handshake upgradeConnectionToWebsocket dials upstream with: the
\* inbound headers except those the dialer sets itself, and no body.
ExcludedHeaders ==
    {"Sec-Websocket-Version", "Sec-Websocket-Key", "Sec-Websocket-Extensions",
     "Connection", "Upgrade"}

DialRequest(req) ==
    [Method |-> req.Method, URL |-> req.URL,
     Header |-> [n \in (DOMAIN req.Header) \ ExcludedHeaders |-> req.Header[n]],
     Body |-> <<>>]

\* The outcome of one call of handleRequest of the recording proxy: the log
\* entry and the recording directory after it.  writeFails is the failure
\* of os.WriteFile, upgradeFails the failure of the WebSocket upgrade.
RecordOutcome(req, prev, dir, up, writeFails, upgradeFails) ==
    LET cr == CreateRedactedRequest(req, prev, EndpointConfig, Redactor)
    IN
    IF cr.err
    THEN [entry |-> RecordEntry(req, prev, HeadSHA, "request error",
                                NothingForwarded, NothingRecorded,
                                PlainReply(500, "Error recording request")),
          dir |-> dir]
    ELSE
    LET reqHash == ComputeSumHeaderBody(cr.rr)
        base == ShaFile(reqHash)
        dirReq == (FileKey(base, "req") :> cr.rr) @@ dir
        forwarded == ProxyRequest(req)
    IN
    IF writeFails = "req"
    THEN [entry |-> RecordEntry(req, prev, HeadSHA, "request error",
                                NothingForwarded, NothingRecorded,
                                PlainReply(500, "Error recording request")),
          dir |-> dir]
    ELSE IF HeaderIs(req, "Upgrade", WebsocketToken)
    THEN IF upgradeFails
         THEN [entry |-> RecordEntry(req, prev, reqHash, "upgrade error",
                                     NothingForwarded, NothingRecorded,
                                     PlainReply(500, "Error proxying websocket")),
               dir |-> dirReq]
         ELSE [entry |-> RecordEntry(req, prev, reqHash, "websocket",
                                     DialRequest(req), NothingRecorded,
                                     PlainReply(101, "")),
               dir |-> (FileKey(base, "websocket") :> <<>>) @@ dirReq]
    ELSE IF up.fails
    THEN [entry |-> RecordEntry(req, prev, reqHash, "proxy error",
                                forwarded, NothingRecorded,
                                PlainReply(500, "Error proxying request")),
          dir |-> dirReq]
    ELSE
    LET header == ApplyResponseHeaderReplacements(up.resp.Header)
        relayed == [status |-> up.resp.StatusCode, header |-> header,
                    body |-> up.resp.Body, error |-> ""]
        nr == NewRecordedResponse([up.resp EXCEPT !.Header = header], up.resp.Body)
    IN
    IF up.bodyFails
    THEN [entry |-> RecordEntry(req, prev, reqHash, "relay error",
                                forwarded, NothingRecorded,
                                [relayed EXCEPT !.body = <<>>,
                                                !.error = "Error proxying request"]),
          dir |-> dirReq]
    ELSE IF nr.err \/ writeFails = "resp"
    THEN [entry |-> RecordEntry(req, prev, reqHash, "response error",
                                forwarded, NothingRecorded,
                                [relayed EXCEPT !.error = "Error recording response"]),
          dir |-> dirReq]
    ELSE
    LET recorded == [nr.resp EXCEPT !.Body = RedactBytes(Redactor, nr.resp.Body)]
    IN  [entry |-> RecordEntry(req, prev, reqHash, "ok", forwarded, recorded, relayed),
         dir |-> (FileKey(base, "resp") :> recorded) @@ dirReq]

\* NewRecordingHTTPSProxy on an empty recording directory.
InitRecord ==
    /\ mode = "record"
    /\ prevRequestSHA = HeadSHA
    /\ seenFiles = {}
    /\ recordingDir = EmptyDir
    /\ replayLog = <<>>
    /\ wsConn = IdleConn
    /\ recordPrevRequestSHA = HeadSHA
    /\ recordLog = <<>>
    /\ recordWs = NoSession
    /\ nameCall = NoCall
    /\ storeCall = NoStoreCall
    /\ handlers = NoHandlers
    /\ proxy = NoProxy
    /\ replayRun = NoRun

RecordRequests == <<ReqPlain, ReqA, ReqSecret, ReqBodyFails, ReqWsA>>

\* handleRequest of the recording proxy, from start to end.  Neither it nor
\* recordRequest assigns prevRequestSHA.
RecordHandleRequest ==
    /\ mode = "record"
    /\ Len(recordLog) < MaxRecorded
    /\ \E i \in 1..Len(RecordRequests), u \in 1..Len(Upstreams),
          writeFails \in {"no", "req", "resp"}, upgradeFails \in BOOLEAN :
          \E out \in {RecordOutcome(RecordRequests[i], recordPrevRequestSHA,
                                    recordingDir, Upstreams[u], writeFails,
                                    upgradeFails)} :
              /\ recordLog' = Append(recordLog, out.entry)
              /\ recordingDir' = out.dir
              /\ recordWs' = IF out.entry.outcome = "websocket"
                             THEN [open |-> TRUE,
                                   base |-> ShaFile(out.entry.reqHash),
                                   frames |-> <<>>]
                             ELSE recordWs
    /\ UNCHANGED <<mode, recordPrevRequestSHA, replayVars, nameCall, storeCall, proxy, replayRun, handlers>>

ResetChain ==
    /\ mode = "record"
    /\ recordPrevRequestSHA' = HeadSHA
    /\ UNCHANGED <<mode, recordingDir, recordLog, recordWs, replayVars, nameCall, storeCall, proxy, replayRun, handlers>>

NextRecord == RecordHandleRequest \/ ResetChain

\* The entries of the log whose request went through proxyRequest.
Proxied(e) ==
    /\ e.forwarded # NothingForwarded
    /\ e.outcome # "websocket"

C14_FailuresAre500 ==
    \A i \in 1..Len(recordLog) :
        LET e == recordLog[i]
        IN  e.outcome \in {"request error", "proxy error", "response error"} =>
                /\ e.reply.status >= 500
                /\ e.reply.status < 600
                /\ e.reply.error # ""

\* Every value of a header that has a replacement rule is a value the rule
\* has been applied to.
RulesApplied(headers) ==
    \A k \in 1..Len(ResponseHeaderReplacements) :
        LET rule == ResponseHeaderReplacements[k]
        IN  rule.Header \in DOMAIN headers =>
                \A i \in 1..Len(headers[rule.Header]) :
                    ~Contains(headers[rule.Header][i], rule.Regex)

\* C29: in record mode the configured response-header replacements are
\* applied to the upstream response headers before they are relayed and
\* before they are persisted, so the header values the client receives equal
\* the header values stored in the recording.
C29_ReplacedBeforeRelayAndPersist ==
    \A i \in 1..Len(recordLog) :
        LET e == recordLog[i]
            key == FileKey(ShaFile(e.reqHash), "resp")
        IN  e.outcome = "ok" =>
                /\ RulesApplied(e.reply.header)
                /\ RulesApplied(e.recorded.Header)
                /\ e.reply.header = e.recorded.Header
                /\ i = Len(recordLog) =>
                      /\ key \in DOMAIN recordingDir
                      /\ recordingDir[key].Header = e.reply.header

\* A response whose Date header matched the rule has been relayed and
\* recorded.
C29_Witness ==
    \E i \in 1..Len(recordLog) :
        /\ recordLog[i].outcome = "ok"
        /\ "Date" \in DOMAIN recordLog[i].reply.header
        /\ recordLog[i].reply.header["Date"] = << <<"0">> >>
        /\ recordLog[i].recorded.Header["Date"] = << <<"0">> >>

\* C30: in record mode a WebSocket upgrade request writes no request file
\* and no response file: the only file created for it is the WebSocket
\* transcript.
C30_UpgradeWritesOnlyTranscript ==
    [][(Len(recordLog') = Len(recordLog) + 1
            /\ recordLog'[Len(recordLog')].outcome = "websocket") =>
        \A key \in (DOMAIN recordingDir') \ (DOMAIN recordingDir) :
            key.ext = "websocket"]_vars

\* ------------------------------------------------------------------------
\* internal/record: the WebSocket session
\* ------------------------------------------------------------------------
RECURSIVE Itoa(_)
Itoa(n) ==
    IF n < 10 THEN <<Digits[n + 1]>>
    ELSE Itoa(n \div 10) \o <<Digits[(n % 10) + 1]>>

\* cap(buf) of the slice ReadMessage returns: at least len(buf), and 512
\* when io.ReadAll did not have to grow its first allocation.
FrameCapacities(buf) == {Len(buf), 512}

\* What pumpWebsocket sends to the file writer for one frame.
PumpChunk(prepend, buf, capacity) == <<prepend>> \o Itoa(capacity) \o buf

\* The frames the client and the upstream send during a session.
RelayedFrames == {<<>>, <<"h">>, <<"1", "h">>, <<"s", "k">>}

TranscriptKey == FileKey(recordWs.base, "websocket")

\* pumpWebsocket, one frame: it is read from one side, handed to the file
\* writer of proxyWebsocket and written to the other side.
PumpWebsocket ==
    /\ mode = "record"
    /\ recordWs.open
    /\ Len(recordWs.frames) < MaxFrames
    /\ \E prepend \in {">", "<"}, buf \in RelayedFrames :
          \E capacity \in FrameCapacities(buf) :
             /\ recordingDir' =
                    [recordingDir EXCEPT ![TranscriptKey] =
                        @ \o PumpChunk(prepend, buf, capacity)]
             /\ recordWs' =
                    [recordWs EXCEPT !.frames =
                        Append(@, [dir |-> prepend, payload |-> buf])]
    /\ UNCHANGED <<mode, recordPrevRequestSHA, recordLog, replayVars, nameCall, storeCall, proxy, replayRun, handlers>>

\* Both pumps have quit: proxyWebsocket returns and the file is closed.
WsSessionEnd ==
    /\ mode = "record"
    /\ recordWs.open
    /\ recordWs' = [recordWs EXCEPT !.open = FALSE]
    /\ UNCHANGED <<mode, recordingDir, recordPrevRequestSHA, recordLog,
                   replayVars, nameCall, storeCall, proxy, replayRun, handlers>>

NextRecordWs == RecordHandleRequest \/ PumpWebsocket \/ WsSessionEnd

SpecRecordWs == InitRecord /\ [][NextRecordWs]_vars

\* The texts a file of the recording directory holds: the transcript, or
\* the request line, the header values and the body of a recorded message.
FileTexts(key) ==
    LET content == recordingDir[key]
    IN  IF key.ext = "websocket" THEN {content}
        ELSE {content.Body}
             \cup UNION {{content.Header[n][i] : i \in 1..Len(content.Header[n])} :
                            n \in DOMAIN content.Header}
             \cup (IF key.ext = "req" THEN {content.Request} ELSE {})

ContainsSecret(text) ==
    \E k \in 1..Len(Redactor) : Contains(text, Redactor[k])

\* C13: in record mode nothing written to the recording directory contains
\* a configured secret: the request file, the response file (headers and
\* body) and the WebSocket transcript are redacted before they are persisted.
C13_NoSecretPersisted ==
    \A key \in DOMAIN recordingDir :
        \A text \in FileTexts(key) : ~ContainsSecret(text)

\* The chunks the replay loader is to return for the relayed frames.
RelayedChunks ==
    [i \in 1..Len(recordWs.frames) |->
        <<recordWs.frames[i].dir>> \o recordWs.frames[i].payload]

\* C11: for every sequence of frames relayed during a recorded WebSocket
\* session, parsing the transcript file the recorder wrote with the replay
\* loader yields the same sequence of (direction, payload) pairs, also for
\* payloads that are empty or begin with a digit.
C11_TranscriptRoundTrip ==
    recordWs.frames # <<>> =>
        LET parsed == ChunkLoop(recordingDir[TranscriptKey], 1, <<>>)
        IN  /\ parsed.err = ""
            /\ parsed.chunks = RelayedChunks

SpecRecord == InitRecord /\ [][NextRecord]_vars

\* C1: in record mode, when two structurally identical requests are handled
\* in sequence on one endpoint, the digest of the second differs from the
\* digest of the first, so the second recording is stored under another key
\* and does not overwrite the first.
C1_IdenticalRequestsGetDistinctHashes ==
    \A i \in 1..(Len(recordLog) - 1) :
        LET a == recordLog[i]
            b == recordLog[i + 1]
        IN  (a.req = b.req /\ a.outcome = "ok" /\ b.outcome = "ok") =>
                /\ a.reqHash # b.reqHash
                /\ recordingDir[FileKey(ShaFile(a.reqHash), "resp")] = a.recorded

\* C3: in record mode, after a request has been recorded and answered, the
\* chain head of the endpoint equals the digest of that request, so the next
\* request is built with that digest as its PreviousRequest.
C3_RecordAdvancesChain ==
    [][(Len(recordLog') = Len(recordLog) + 1
            /\ recordLog'[Len(recordLog')].outcome = "ok") =>
        recordPrevRequestSHA' = recordLog'[Len(recordLog')].reqHash]_vars

\* ------------------------------------------------------------------------
\* Record, then replay what was recorded
\* ------------------------------------------------------------------------
\* The recording proxy is stopped and a replay server is started on the
\* directory it wrote, with the same endpoint configuration and secrets.
StartReplay ==
    /\ mode = "record"
    /\ Len(recordLog) > 0
    /\ mode' = "replay"
    /\ UNCHANGED <<recordingDir, replayVars, recordVars, nameCall, storeCall, proxy, replayRun, handlers>>

\* The next recorded request is sent to the replay server.
ReplayRecorded ==
    /\ mode = "replay"
    /\ Len(replayLog) < Len(recordLog)
    /\ \E upgradeFails \in BOOLEAN, writeFails \in BOOLEAN :
          ReplayHandle(recordLog[Len(replayLog) + 1].req, upgradeFails, writeFails)
    /\ UNCHANGED <<mode, recordingDir, recordVars, nameCall, storeCall, proxy, replayRun, handlers>>

NextRoundTrip == RecordHandleRequest \/ ResetChain \/ StartReplay \/ ReplayRecorded

SpecRoundTrip == InitRecord /\ [][NextRoundTrip]_vars

\* C2: for any sequence of HTTP requests recorded on one endpoint and then
\* replayed in the same order with the same endpoint configuration and the
\* same secrets, every replayed request computes the digest it had at record
\* time and is answered with the response that was recorded for it.
C2_ReplayReproducesRecording ==
    \A i \in 1..Len(replayLog) :
        LET rec == recordLog[i]
            rep == replayLog[i]
        IN  (rec.outcome = "ok" /\ rep.outcome # "panic") =>
                /\ rep.shaSum = rec.reqHash
                /\ rep.outcome = "ok"
                /\ rep.reply.status = rec.recorded.StatusCode
                /\ rep.reply.body = rec.recorded.Body

\* ------------------------------------------------------------------------
\* internal/store: the text format of requests and responses
\* ------------------------------------------------------------------------
\* strings.Split(s, "\n"): the texts between consecutive line feeds.
LineFeeds(s) == {i \in 1..Len(s) : s[i] = "\n"}

\* The position of the k-th line feed of s; 0 for k = 0 and Len(s) + 1
\* past the last one.
LineFeedAt(s, k) ==
    IF k = 0 THEN 0
    ELSE IF k > Cardinality(LineFeeds(s)) THEN Len(s) + 1
    ELSE CHOOSE p \in LineFeeds(s) :
            Cardinality({q \in LineFeeds(s) : q < p}) = k - 1

SplitLines(s) ==
    [k \in 1..(Cardinality(LineFeeds(s)) + 1) |->
        SubSeq(s, LineFeedAt(s, k - 1) + 1, LineFeedAt(s, k) - 1)]

\* The first position at which sep occurs in s, 0 when it does not.
IndexOf(s, sep) ==
    IF Contains(s, sep)
    THEN CHOOSE i \in 1..(Len(s) + 1) :
            /\ HasPrefixAt(s, sep, i)
            /\ \A j \in 1..(i - 1) : ~HasPrefixAt(s, sep, j)
    ELSE 0

\* strings.SplitN(s, sep, 2) and bytes.SplitN(s, sep, 2)
SplitN2(s, sep) ==
    LET i == IndexOf(s, sep)
    IN  IF i = 0 THEN <<s>>
        ELSE <<SubSeq(s, 1, i - 1), SubSeq(s, i + Len(sep), Len(s))>>

TrimPrefix(s, prefix) ==
    IF HasPrefixAt(s, prefix, 1) THEN SubSeq(s, Len(prefix) + 1, Len(s)) ELSE s

\* textproto.CanonicalMIMEHeaderKey over the letters the model uses.
LowerLetters == <<"a", "k", "v", "x">>
UpperLetters == <<"A", "K", "V", "X">>

ToUpper(c) ==
    IF \E k \in 1..Len(LowerLetters) : LowerLetters[k] = c
    THEN UpperLetters[CHOOSE k \in 1..Len(LowerLetters) : LowerLetters[k] = c]
    ELSE c

ToLower(c) ==
    IF \E k \in 1..Len(UpperLetters) : UpperLetters[k] = c
    THEN LowerLetters[CHOOSE k \in 1..Len(UpperLetters) : UpperLetters[k] = c]
    ELSE c

CanonicalKey(key) ==
    [i \in 1..Len(key) |->
        IF i = 1 \/ key[i - 1] = "-" THEN ToUpper(key[i]) ELSE ToLower(key[i])]

\* http.Header.Add
HeaderAdd(headers, key, value) ==
    LET k == CanonicalKey(key)
    IN  IF k \in DOMAIN headers
        THEN [headers EXCEPT ![k] = Append(@, value)]
        ELSE (k :> <<value>>) @@ headers

ColonSpace == <<":", " ">>

\* The "{key}: {value}\n" lines of one header, one line per value.
RECURSIVE ValueLines(_, _, _)
ValueLines(key, values, i) ==
    IF i > Len(values) THEN <<>>
    ELSE key \o ColonSpace \o values[i] \o <<"\n">> \o ValueLines(key, values, i + 1)

\* The header lines in the order the map iteration yields the keys.
RECURSIVE HeaderLines(_, _, _)
HeaderLines(header, order, k) ==
    IF k > Len(order) THEN <<>>
    ELSE ValueLines(order[k], header[order[k]], 1) \o HeaderLines(header, order, k + 1)

\* The orders in which a map with these keys can be iterated.
KeyOrders(keys) ==
    {o \in [1..Cardinality(keys) -> keys] :
        \A i, j \in 1..Cardinality(keys) : i # j => o[i] # o[j]}

ServerAddressLabel == <<"S", "e", "r", "v", "e", "r", " ", "A", "d", "d", "r", "e", "s", "s", ":", " ">>
PortLabel == <<"P", "o", "r", "t", ":", " ">>
ProtocolLabel == <<"P", "r", "o", "t", "o", "c", "o", "l", ":", " ">>
StatusCodeLabel == <<"S", "t", "a", "t", "u", "s", " ", "c", "o", "d", "e", ":", " ">>

Stars == [i \in 1..80 |-> "*"]

\* RecordedRequest.Serialize of the text format.
SerializeText(r, order) ==
    r.PreviousRequest \o <<"\n">>
    \o ServerAddressLabel \o r.ServerAddress \o <<"\n">>
    \o PortLabel \o Itoa(r.Port) \o <<"\n">>
    \o ProtocolLabel \o r.Protocol \o <<"\n">>
    \o Stars \o <<"\n">>
    \o r.Request \o <<"\n">>
    \o HeaderLines(r.Header, order, 1)
    \o <<"\n", "\n">>
    \o r.Body

\* fmt.Sscan into an int: the leading decimal digits of the text.
ScanInt(str) ==
    LET q == DigitsEnd(str, 1)
    IN  IF q = 1 THEN [err |-> TRUE, num |-> 0]
        ELSE [err |-> FALSE, num |-> Atoi(SubSeq(str, 1, q - 1))]

\* A header loop that takes the first empty line for the end of the headers.
RECURSIVE HeaderLoopOneBlank(_, _, _)
HeaderLoopOneBlank(lines, i, headers) ==
    IF i > Len(lines) THEN [panic |-> FALSE, headers |-> headers, bodyStart |-> 0]
    ELSE IF lines[i] = <<>>
    THEN [panic |-> FALSE, headers |-> headers, bodyStart |-> i + 1]
    ELSE LET parts == SplitN2(lines[i], ColonSpace)
         IN  IF Len(parts) # 2
             THEN HeaderLoopOneBlank(lines, i + 1, headers)
             ELSE HeaderLoopOneBlank(lines, i + 1,
                                     HeaderAdd(headers, parts[1], parts[2]))

\* The header loop of Deserialize from line i: the headers found and the
\* line the body starts at (0 when the separator is not found).  Reading
\* lines[i+1] past the last line is an index out of range.
RECURSIVE HeaderLoop(_, _, _)
HeaderLoop(lines, i, headers) ==
    IF i > Len(lines) THEN [panic |-> FALSE, headers |-> headers, bodyStart |-> 0]
    ELSE IF lines[i] = <<>> /\ i + 1 > Len(lines)
    THEN [panic |-> TRUE, headers |-> headers, bodyStart |-> 0]
    ELSE IF lines[i] = <<>> /\ lines[i + 1] = <<>>
    THEN [panic |-> FALSE, headers |-> headers, bodyStart |-> i + 2]
    ELSE LET parts == SplitN2(lines[i], ColonSpace)
         IN  IF Len(parts) # 2
             THEN HeaderLoop(lines, i + 1, headers)
             ELSE HeaderLoop(lines, i + 1, HeaderAdd(headers, parts[1], parts[2]))

NoTextHeader == [k \in {} |-> <<>>]

\* Deserialize of the text format.
Deserialize(data) ==
    LET lines == SplitLines(data)
    IN  IF Len(lines) < 6 THEN [err |-> "not enough lines"]
        ELSE
        LET portString == TrimPrefix(lines[3], PortLabel)
            port == IF portString # <<>> THEN ScanInt(portString)
                    ELSE [err |-> FALSE, num |-> 0]
            loop == HeaderLoop(lines, 7, NoTextHeader)
        IN  IF port.err THEN [err |-> "invalid port"]
            ELSE IF loop.panic THEN [err |-> "panic"]
            ELSE [err |-> "",
                  Request |-> lines[6],
                  Header |-> loop.headers,
                  Body |-> IF loop.bodyStart # 0 /\ loop.bodyStart <= Len(lines)
                           THEN Join(SubSeq(lines, loop.bodyStart, Len(lines)), <<"\n">>)
                           ELSE <<>>,
                  PreviousRequest |-> lines[1],
                  ServerAddress |-> TrimPrefix(lines[2], ServerAddressLabel),
                  Port |-> port.num,
                  Protocol |-> TrimPrefix(lines[4], ProtocolLabel)]

\* RecordedResponse.Serialize
SerializeResponse(r, order) ==
    StatusCodeLabel \o Itoa(r.StatusCode) \o <<" ", "\n">>
    \o HeaderLines(r.Header, order, 1)
    \o <<"\n">>
    \o r.Body

RECURSIVE AddHeaderLines(_, _, _)
AddHeaderLines(lines, i, headers) ==
    IF i > Len(lines) THEN headers
    ELSE LET parts == SplitN2(lines[i], ColonSpace)
         IN  IF Len(parts) # 2
             THEN AddHeaderLines(lines, i + 1, headers)
             ELSE AddHeaderLines(lines, i + 1, HeaderAdd(headers, parts[1], parts[2]))

\* DeserializeResponse on the bytes of a response file.
DeserializeResponseText(data) ==
    LET lines == SplitN2(data, <<"\n">>)
    IN  IF Len(lines) < 2 THEN [err |-> "not enough lines"]
        ELSE
        LET status == IF HasPrefixAt(lines[1], StatusCodeLabel, 1)
                      THEN ScanInt(TrimPrefix(lines[1], StatusCodeLabel))
                      ELSE [err |-> TRUE, num |-> 0]
            headerBodySplit == SplitN2(lines[2], <<"\n", "\n">>)
        IN  IF status.err THEN [err |-> "invalid status code"]
            ELSE IF Len(headerBodySplit) < 2 THEN [err |-> "no body separator"]
            ELSE [err |-> "",
                  StatusCode |-> status.num,
                  Header |-> AddHeaderLines(SplitLines(headerBodySplit[1]), 1,
                                            NoTextHeader),
                  Body |-> headerBodySplit[2]]

\* The messages the functions are called on.  Header names are canonical,
\* as net/http delivers them, and every header has at least one value.
KeyK == <<"K">>
KeyXA == <<"X", "-", "A">>

TextHeaders ==
    {NoTextHeader,
     KeyK :> << <<"v">> >>,
     KeyK :> << <<"v">>, <<"x", ":", " ", "v">> >>,
     KeyK :> << <<>> >>,
     (KeyK :> << <<"v">> >>) @@ (KeyXA :> << <<"a">>, <<"v">> >>)}

TextBodies ==
    {<<>>, <<"b">>, <<"\n">>, <<"\n", "b">>, <<"b", "\n", "\n", "c">>,
     <<"K", ":", " ", "v">>, <<"b", "\n">>}

TextRequests ==
    [Request : {<<"G", " ", "/">>},
     Header : TextHeaders,
     Body : TextBodies,
     PreviousRequest : {<<"p">>, <<"q">>},
     ServerAddress : {<<"u">>},
     Port : {0, 443},
     Protocol : {<<"s">>}]

TextResponses ==
    [StatusCode : {200, 404}, Header : TextHeaders, Body : TextBodies]

InitStore ==
    /\ mode = "store"
    /\ prevRequestSHA = HeadSHA
    /\ seenFiles = {}
    /\ recordingDir = EmptyDir
    /\ replayLog = <<>>
    /\ wsConn = IdleConn
    /\ recordPrevRequestSHA = HeadSHA
    /\ recordLog = <<>>
    /\ recordWs = NoSession
    /\ nameCall = NoCall
    /\ storeCall = NoStoreCall
    /\ handlers = NoHandlers
    /\ proxy = NoProxy
    /\ replayRun = NoRun

StoreUnchanged ==
    UNCHANGED <<mode, recordingDir, replayVars, recordVars, nameCall, proxy, replayRun, handlers>>

\* A request is serialized and the text is deserialized.
CallRequestRoundTrip ==
    /\ mode = "store"
    /\ storeCall.op = "none"
    /\ \E x \in TextRequests :
          \E order \in KeyOrders(DOMAIN x.Header) :
             LET text == SerializeText(x, order)
             IN  storeCall' = [op |-> "request", x |-> x, text |-> text,
                               out |-> Deserialize(text)]
    /\ StoreUnchanged

\* A response is serialized and the bytes are deserialized.
CallResponseRoundTrip ==
    /\ mode = "store"
    /\ storeCall.op = "none"
    /\ \E r \in TextResponses :
          \E order \in KeyOrders(DOMAIN r.Header) :
             LET text == SerializeResponse(r, order)
             IN  storeCall' = [op |-> "response", x |-> r, text |-> text,
                               out |-> DeserializeResponseText(text)]
    /\ StoreUnchanged

\* C17: for every text-format RecordedRequest x (no header, several headers,
\* multi-valued headers, empty or multi-line body) Deserialize(Serialize(x))
\* equals x on request line, headers, body, previous hash, server address,
\* port and protocol.
C17_RequestRoundTrip ==
    storeCall.op = "request" =>
        /\ storeCall.out.err = ""
        /\ storeCall.out.Request = storeCall.x.Request
        /\ storeCall.out.Header = storeCall.x.Header
        /\ storeCall.out.Body = storeCall.x.Body
        /\ storeCall.out.PreviousRequest = storeCall.x.PreviousRequest
        /\ storeCall.out.ServerAddress = storeCall.x.ServerAddress
        /\ storeCall.out.Port = storeCall.x.Port
        /\ storeCall.out.Protocol = storeCall.x.Protocol

\* A request with two headers, one of them two-valued, and a body holding
\* an empty line has been serialized and deserialized.
C17_Witness ==
    /\ storeCall.op = "request"
    /\ Cardinality(DOMAIN storeCall.x.Header) = 2
    /\ \E k \in DOMAIN storeCall.x.Header : Len(storeCall.x.Header[k]) = 2
    /\ Contains(storeCall.x.Body, <<"\n", "\n">>)
    /\ storeCall.out.err = ""

\* C18: for every RecordedResponse r, also one with no headers and one whose
\* body is empty or starts with a newline, DeserializeResponse(Serialize(r))
\* reproduces the status code, the headers and the body of r.
C18_ResponseRoundTrip ==
    storeCall.op = "response" =>
        /\ storeCall.out.err = ""
        /\ storeCall.out.StatusCode = storeCall.x.StatusCode
        /\ storeCall.out.Header = storeCall.x.Header
        /\ storeCall.out.Body = storeCall.x.Body

\* The requests whose content hashes are compared.
SumRequests ==
    {NewRecordedRequest(req, prev, EndpointConfig).rr :
        req \in {ReqPlain, ReqA, ReqAPost, ReqB, ReqSecret},
        prev \in {HeadSHA, SumOf(ReqA, HeadSHA)}}

\* ComputeSum of two requests, by the digest over header and body and by
\* the digest over the serialized request.
CallComputeSum ==
    /\ mode = "store"
    /\ storeCall.op = "none"
    /\ \E x \in SumRequests, y \in SumRequests :
          storeCall' = [op |-> "sum", x |-> x, y |-> y,
                        headerBodySums |-> <<ComputeSumHeaderBody(x),
                                             ComputeSumHeaderBody(y)>>,
                        sums |-> <<ComputeSum(x), ComputeSum(y)>>]
    /\ StoreUnchanged

\* C19: ComputeSum is a function of the request, and two requests that
\* differ in a header value, in a body byte or only in PreviousRequest have
\* different content hashes.
C19_SumSeparatesRequests ==
    storeCall.op = "sum" =>
        LET x == storeCall.x
            y == storeCall.y
        IN  /\ x = y => /\ storeCall.headerBodySums[1] = storeCall.headerBodySums[2]
                        /\ storeCall.sums[1] = storeCall.sums[2]
            /\ (x.Header # y.Header \/ x.Body # y.Body
                    \/ x.PreviousRequest # y.PreviousRequest) =>
                  /\ storeCall.headerBodySums[1] # storeCall.headerBodySums[2]
                  /\ storeCall.sums[1] # storeCall.sums[2]

\* A byte slice: nil, or its bytes.
NilBytes == [isNil |-> TRUE, data |-> <<>>]

SomeBytes(data) == [isNil |-> FALSE, data |-> data]

\* A Bytes that builds its result with ReplaceAll in every case; with no
\* pattern nothing matches.
BytesAlwaysReplaced(r, input) ==
    LET out == RegexReplaceFrom(r, input.data, 1)
    IN  IF out = <<>> THEN NilBytes ELSE SomeBytes(out)

\* Redact.Bytes with nil told from empty: the input itself without a
\* pattern, nil for nil, else the result of ReplaceAll, which is nil when
\* nothing was appended to it.
Bytes(r, input) ==
    IF r = <<>> THEN input
    ELSE IF input.isNil THEN NilBytes
    ELSE LET out == RegexReplaceFrom(r, input.data, 1)
         IN  IF out = <<>> THEN NilBytes ELSE SomeBytes(out)

SecretLists ==
    {<<>>, << <<>> >>, << <<>>, <<>> >>, << <<"s", "k">> >>,
     << <<>>, <<"s", "k">> >>, << <<"s">>, <<"s", "k">> >>,
     << <<"R", "E", "D">> >>}

RedactInputs ==
    {<<>>, <<"a">>, <<"s", "k">>, <<"a", "s", "k", "s">>, <<"R", "E", "D">>}

\* A redactor is built and applied to a string, a byte slice and headers.
CallRedact ==
    /\ mode = "store"
    /\ storeCall.op = "none"
    /\ \E secrets \in SecretLists, input \in RedactInputs, nil \in BOOLEAN :
        \E headers \in {NoHeader, "X-Key" :> <<input, <<"s", "k">>>>} :
          LET r == NewRedact(secrets)
              bytes == IF nil THEN NilBytes ELSE SomeBytes(input)
          IN  storeCall' = [op |-> "redact", secrets |-> secrets,
                            str |-> input, strOut |-> RedactString(r, input),
                            strTwice |-> RedactString(r, RedactString(r, input)),
                            bytes |-> bytes, bytesOut |-> Bytes(r, bytes),
                            bytesTwice |-> Bytes(r, Bytes(r, bytes)),
                            headers |-> headers,
                            headersOut |-> RedactHeaderValues(r, headers)]
    /\ StoreUnchanged

\* C37: for every list of non-empty secrets and every input, the output of
\* String, of Bytes and of Headers contains no configured secret as a
\* substring.
C37_NoSecretInOutput ==
    (storeCall.op = "redact"
        /\ storeCall.secrets # <<>>
        /\ \A k \in 1..Len(storeCall.secrets) : storeCall.secrets[k] # <<>>) =>
        \A k \in 1..Len(storeCall.secrets) :
            /\ ~Contains(storeCall.strOut, storeCall.secrets[k])
            /\ ~Contains(storeCall.bytesOut.data, storeCall.secrets[k])
            /\ \A n \in DOMAIN storeCall.headersOut :
                  \A i \in 1..Len(storeCall.headersOut[n]) :
                     ~Contains(storeCall.headersOut[n][i], storeCall.secrets[k])

\* C20: a Redact built from no secrets, or from empty-string secrets only,
\* leaves every input unchanged: String and Bytes return their input (nil
\* stays nil, empty stays empty) and Headers modifies no header value.
C20_NoSecretsNoChange ==
    (storeCall.op = "redact"
        /\ \A k \in 1..Len(storeCall.secrets) : storeCall.secrets[k] = <<>>) =>
        /\ storeCall.strOut = storeCall.str
        /\ storeCall.bytesOut = storeCall.bytes
        /\ storeCall.headersOut = storeCall.headers

\* A redactor built from two empty secrets has been applied to an empty,
\* non-nil byte slice and to headers holding a value.
C20_Witness ==
    /\ storeCall.op = "redact"
    /\ Len(storeCall.secrets) = 2
    /\ \A k \in 1..Len(storeCall.secrets) : storeCall.secrets[k] = <<>>
    /\ storeCall.bytes = SomeBytes(<<>>)
    /\ storeCall.headers # NoHeader

\* C21: for every set of secrets and every input text, redacting text that
\* has already been redacted returns it unchanged: String(String(s)) equals
\* String(s), and Bytes(Bytes(b)) equals Bytes(b).
C21_RedactIdempotent ==
    storeCall.op = "redact" =>
        /\ storeCall.strTwice = storeCall.strOut
        /\ storeCall.bytesTwice = storeCall.bytesOut

\* http.Header.Del: the key is canonicalized, then deleted from the map.
HeaderDel(h, key) == [n \in (DOMAIN h) \ {CanonicalKey(key)} |-> h[n]]

RECURSIVE DelAll(_, _, _)
DelAll(h, headers, i) ==
    IF i > Len(headers) THEN h
    ELSE DelAll(HeaderDel(h, headers[i]), headers, i + 1)

\* RedactHeaders of the text-format store: Header.Del for every listed name.
RedactHeadersDel(rr, headers) == [rr EXCEPT !.Header = DelAll(@, headers, 1)]

\* RedactHeaders of the JSON-format store: the built-in delete on a
\* map[string]string, which removes the key that equals the listed name.
RedactHeadersMap(rr, headers) ==
    [rr EXCEPT !.Header =
        [n \in (DOMAIN @) \ {headers[i] : i \in 1..Len(headers)} |-> @[n]]]

\* strings.EqualFold over the letters the model uses.
EqualFold(a, b) ==
    /\ Len(a) = Len(b)
    /\ \A i \in 1..Len(a) : ToLower(a[i]) = ToLower(b[i])

\* Deny lists: empty, exact names, names in another case, an absent name.
DenyLists ==
    {<<>>, <<KeyK>>, << <<"k">> >>, << <<"x", "-", "a">> >>,
     << <<"X", "-", "a">>, KeyK >>, << <<"V">> >>}

\* RedactHeaders is called on a request whose header names are canonical.
CallRedactHeaders ==
    /\ mode = "store"
    /\ storeCall.op = "none"
    /\ \E x \in TextRequests, headers \in DenyLists :
          /\ x.Body = <<"b">>
          /\ storeCall' = [op |-> "redactHeaders", x |-> x, headers |-> headers,
                            outDel |-> RedactHeadersDel(x, headers),
                            outMap |-> RedactHeadersMap(x, headers)]
    /\ StoreUnchanged

\* The request out is the request x without the headers whose name matches a
\* name of the list, and is x in everything else.
RemovesListed(x, headers, out) ==
    /\ DOMAIN out.Header =
            {n \in DOMAIN x.Header :
                \A i \in 1..Len(headers) : ~EqualFold(n, headers[i])}
    /\ \A n \in DOMAIN out.Header : out.Header[n] = x.Header[n]
    /\ out = [x EXCEPT !.Header = out.Header]

\* C22: RedactHeaders(L) removes every header whose name matches a name in L
\* case-insensitively and changes nothing else: the other headers, the
\* request line, the body, the previous hash and the endpoint metadata are
\* unchanged, and a name of L that is not present is a no-op.
C22_RedactHeadersRemovesListed ==
    storeCall.op = "redactHeaders" =>
        /\ RemovesListed(storeCall.x, storeCall.headers, storeCall.outDel)
        /\ RemovesListed(storeCall.x, storeCall.headers, storeCall.outMap)

\* The body of a live request: nil, or a reader with the bytes it still
\* yields and whether it then ends with an error instead of EOF.
NilBody == [isNil |-> TRUE, data |-> <<>>, fails |-> FALSE]

NewBuffer(data) == [isNil |-> FALSE, data |-> data, fails |-> FALSE]

ErrorReader(data) == [isNil |-> FALSE, data |-> data, fails |-> TRUE]

\* io.ReadAll: every byte up to EOF, or the error; the reader is left drained.
ReadAll(reader) ==
    [data |-> reader.data, err |-> reader.fails,
     rest |-> [reader EXCEPT !.data = <<>>]]

\* A readBody that does not put the bytes back.
ReadBodyDrained(req) ==
    IF req.Body.isNil THEN [body |-> <<>>, err |-> FALSE, req |-> req]
    ELSE LET r == ReadAll(req.Body)
         IN  IF r.err
             THEN [body |-> <<>>, err |-> TRUE, req |-> [req EXCEPT !.Body = r.rest]]
             ELSE [body |-> r.data, err |-> FALSE,
                   req |-> [req EXCEPT !.Body = r.rest]]

\* readBody: an empty slice for a nil body; else the bytes of ReadAll, and
\* the body of the request is replaced by a new reader over them.
ReadBody(req) ==
    IF req.Body.isNil THEN [body |-> <<>>, err |-> FALSE, req |-> req]
    ELSE LET r == ReadAll(req.Body)
         IN  IF r.err
             THEN [body |-> <<>>, err |-> TRUE, req |-> [req EXCEPT !.Body = r.rest]]
             ELSE [body |-> r.data, err |-> FALSE,
                   req |-> [req EXCEPT !.Body = NewBuffer(r.data)]]

\* NewRecordedRequest on a live request: the canonical request or the
\* error, and the live request as the call leaves it.
NewRecordedRequestLive(req, previousRequest, cfg) ==
    LET rb == ReadBody(req)
        made == NewRecordedRequest([req EXCEPT !.Body = rb.body,
                                                !.BodyFails = rb.err],
                                   previousRequest, cfg)
    IN  [err |-> made.err, rr |-> made.rr, req |-> rb.req]

\* What a later reader of the live request gets (a nil body is no body).
ReadLater(req) ==
    IF req.Body.isNil THEN [data |-> <<>>, err |-> FALSE, rest |-> req.Body]
    ELSE ReadAll(req.Body)

LiveBodies ==
    {NilBody, NewBuffer(<<>>), NewBuffer(<<"b">>), NewBuffer(<<"s", "k", "b">>),
     ErrorReader(<<>>), ErrorReader(<<"b">>)}

\* NewRecordedRequest is called on a live request, whose body is read again
\* afterwards.
CallNewRecordedRequest ==
    /\ mode = "store"
    /\ storeCall.op = "none"
    /\ \E r \in {ReqPlain, ReqAPost, ReqSecret}, body \in LiveBodies,
          prev \in {HeadSHA, SumOf(ReqA, HeadSHA)} :
          LET req == [r EXCEPT !.Body = body]
              made == NewRecordedRequestLive(req, prev, EndpointConfig)
          IN  storeCall' = [op |-> "newRequest", req |-> req, err |-> made.err,
                            rr |-> made.rr, after |-> made.req,
                            later |-> ReadLater(made.req)]
    /\ StoreUnchanged

\* C23: NewRecordedRequest reads the whole request body without consuming it
\* for later use: on success the canonical request holds the body bytes and
\* the body of the live request can be read again and yields the same bytes;
\* when reading the body fails, an error is returned and no canonical request
\* is produced.
C23_BodyReadAndRestored ==
    storeCall.op = "newRequest" =>
        IF storeCall.req.Body.fails
        THEN /\ storeCall.err
             /\ storeCall.rr = <<>>
        ELSE /\ ~storeCall.err
             /\ storeCall.rr.Body = storeCall.req.Body.data
             /\ ~storeCall.later.err
             /\ storeCall.later.data = storeCall.req.Body.data

\* A request with a non-empty body has been made canonical.
C23_Witness ==
    /\ storeCall.op = "newRequest"
    /\ ~storeCall.err
    /\ storeCall.rr.Body = <<"s", "k", "b">>
    /\ storeCall.later.data = <<"s", "k", "b">>

\* ------------------------------------------------------------------------
\* internal/store, structured format: readBody and NewRecordedRequest
\* ------------------------------------------------------------------------
Quote == "\""

JsonNull == <<"n", "u", "l", "l">>
JsonEmptyObject == <<"{", "}">>
JsonMember == <<"{", Quote, "k", Quote, ":", Quote, Quote, "}">>
JsonArray == <<"[", "]">>

\* map[string]any{} and the nil map.
EmptyObject == [isNil |-> FALSE, members |-> [k \in {} |-> <<>>]]
NilObject == [isNil |-> TRUE, members |-> [k \in {} |-> <<>>]]

\* json.Unmarshal(body, &resultMap) with resultMap a nil map[string]any,
\* for the texts null, {} and an object with one string member; any other
\* text of the model is not an object and is an error.
JsonUnmarshal(body) ==
    LET quotes == {i \in 1..Len(body) : body[i] = Quote}
    IN  IF body = JsonNull THEN [err |-> FALSE, value |-> NilObject]
        ELSE IF body = JsonEmptyObject THEN [err |-> FALSE, value |-> EmptyObject]
        ELSE IF /\ Len(body) >= 7
                /\ body[1] = "{" /\ body[Len(body)] = "}"
                /\ Cardinality(quotes) = 4
                /\ 2 \in quotes /\ (Len(body) - 1) \in quotes
                /\ \E c \in 3..(Len(body) - 3) :
                      /\ c \in quotes /\ body[c + 1] = ":" /\ (c + 2) \in quotes
        THEN LET c == CHOOSE c \in 3..(Len(body) - 3) :
                         c \in quotes /\ body[c + 1] = ":" /\ (c + 2) \in quotes
             IN  [err |-> FALSE,
                  value |-> [isNil |-> FALSE,
                             members |-> (SubSeq(body, 3, c - 1)
                                            :> SubSeq(body, c + 3, Len(body) - 2))]]
        ELSE [err |-> TRUE, value |-> NilObject]

\* readBody: the empty object for a nil body; the error of ReadAll; on a
\* JSON error log.Fatalf, which ends the process with status 1; else the
\* decoded object, and the body of the request is replaced.
ReadBodyJSON(req) ==
    IF req.Body.isNil
    THEN [exit |-> FALSE, err |-> FALSE, body |-> EmptyObject, req |-> req]
    ELSE LET r == ReadAll(req.Body)
         IN  IF r.err
             THEN [exit |-> FALSE, err |-> TRUE, body |-> NilObject,
                   req |-> [req EXCEPT !.Body = r.rest]]
             ELSE LET u == JsonUnmarshal(r.data)
                  IN  IF u.err
                      THEN [exit |-> TRUE, err |-> TRUE, body |-> NilObject,
                            req |-> [req EXCEPT !.Body = r.rest]]
                      ELSE [exit |-> FALSE, err |-> FALSE, body |-> u.value,
                            req |-> [req EXCEPT !.Body = NewBuffer(r.data)]]

\* NewRecordedRequest of the structured format: whether the process has
\* exited, the error, the canonical request.
NewRecordedRequestJSON(req, previousRequest, cfg) ==
    LET rb == ReadBodyJSON(req)
    IN  IF rb.exit THEN [exit |-> TRUE, err |-> FALSE, rr |-> <<>>]
        ELSE IF rb.err THEN [exit |-> FALSE, err |-> TRUE, rr |-> <<>>]
        ELSE [exit |-> FALSE, err |-> FALSE,
              rr |-> [Method |-> req.Method, URL |-> req.URL,
                      Request |-> RequestLine(req),
                      BodySegments |-> <<rb.body>>,
                      PreviousRequest |-> previousRequest,
                      ServerAddress |-> cfg.TargetHost, Port |-> cfg.TargetPort,
                      Protocol |-> cfg.TargetType]]

\* The bodies of the live requests: nil (a client-side request built
\* without a body), the empty stream a server hands to its handler for a
\* request without a body, JSON texts, other texts, a failing reader.
JSONBodies ==
    {NilBody, NewBuffer(<<>>), NewBuffer(JsonEmptyObject), NewBuffer(JsonMember),
     NewBuffer(JsonNull), NewBuffer(JsonArray), NewBuffer(<<"1">>), NewBuffer(<<"x">>),
     NewBuffer(<<"{">>), ErrorReader(<<>>)}

CallNewRecordedRequestJSON ==
    /\ mode = "store"
    /\ storeCall.op = "none"
    /\ \E r \in {ReqPlain, ReqAPost, ReqSecret}, body \in JSONBodies,
          prev \in {HeadSHA, SumOf(ReqA, HeadSHA)} :
          LET req == [r EXCEPT !.Body = body]
          IN  storeCall' = [op |-> "newRequestJSON", req |-> req,
                            out |-> NewRecordedRequestJSON(req, prev, EndpointConfig)]
    /\ StoreUnchanged

\* The request has no body: the body is nil or a stream without bytes.
HasNoBody(req) == req.Body.isNil \/ (req.Body.data = <<>> /\ ~req.Body.fails)

\* The body was read and its text is not a JSON object.
NotAnObject(req) ==
    /\ ~req.Body.isNil
    /\ ~req.Body.fails
    /\ req.Body.data # <<>>
    /\ LET u == JsonUnmarshal(req.Body.data) IN u.err \/ u.value.isNil

\* C38: in the structured format a request with no body yields exactly one
\* empty body segment, a body that is not a JSON object makes
\* NewRecordedRequest return an error, and the process does not terminate
\* in either case.
C38_BodyErrorsAreReturned ==
    storeCall.op = "newRequestJSON" =>
        /\ ~storeCall.out.exit
        /\ HasNoBody(storeCall.req) =>
              /\ ~storeCall.out.err
              /\ storeCall.out.rr.BodySegments = <<EmptyObject>>
        /\ NotAnObject(storeCall.req) => storeCall.out.err

\* The lines of a serialized request, and texts made from them by leaving
\* lines out, by replacing the separator line and by replacing the port text.
ValidLines ==
    << <<"p">>, ServerAddressLabel \o <<"u">>, PortLabel \o <<"4", "4", "3">>,
       ProtocolLabel \o <<"s">>, Stars, <<"G", " ", "/">>, KeyK \o ColonSpace \o <<"v">>,
       <<>>, <<>>, <<"b">> >>

WithLine(lines, i, line) == [lines EXCEPT ![i] = line]

WithoutLine(lines, i) == SubSeq(lines, 1, i - 1) \o SubSeq(lines, i + 1, Len(lines))

DeserializeLines ==
    {ValidLines,
     << <<>> >>,
     << <<"G", " ", "/">>, KeyK \o ColonSpace \o <<"v">> >>,
     SubSeq(ValidLines, 1, 5),
     SubSeq(ValidLines, 1, 6),
     SubSeq(ValidLines, 1, 7),
     SubSeq(ValidLines, 1, 8),
     SubSeq(ValidLines, 1, 9),
     WithLine(ValidLines, 5, <<"x">>),
     WithLine(ValidLines, 5, SubSeq(Stars, 1, 79)),
     WithoutLine(ValidLines, 5),
     WithLine(ValidLines, 3, PortLabel \o <<"x">>),
     WithLine(ValidLines, 3, PortLabel \o <<"4", "x">>),
     WithLine(ValidLines, 3, PortLabel),
     WithLine(ValidLines, 3, <<"4", "4", "3">>)}

\* Deserialize is called on a text.
CallDeserialize ==
    /\ mode = "store"
    /\ storeCall.op = "none"
    /\ \E lines \in DeserializeLines :
          LET text == Join(lines, <<"\n">>)
          IN  storeCall' = [op |-> "deserialize", text |-> text,
                            out |-> Deserialize(text)]
    /\ StoreUnchanged

IsDecimal(str) == str # <<>> /\ \A i \in 1..Len(str) : IsDigit(str[i])

\* The text has fewer than 6 lines, has no line of 80 asterisks, or has a
\* port line whose text is not a decimal integer.
Malformed(text) ==
    LET lines == SplitLines(text)
    IN  \/ Len(lines) < 6
        \/ \A i \in 1..Len(lines) : lines[i] # Stars
        \/ ~IsDecimal(TrimPrefix(lines[3], PortLabel))

\* C24: Deserialize returns an error, and not a request with defaulted
\* fields, for input with fewer than 6 lines, for input that lacks the
\* 80-asterisk separator line, and for a Port line whose text is not a
\* decimal integer.
C24_MalformedIsError ==
    (storeCall.op = "deserialize" /\ Malformed(storeCall.text)) =>
        storeCall.out.err \notin {"", "panic"}

\* The same request is serialized twice; each call iterates the header map
\* in an order of its own.
CallSerializeTwice ==
    /\ mode = "store"
    /\ storeCall.op = "none"
    /\ \E x \in TextRequests :
          \E first \in KeyOrders(DOMAIN x.Header) :
             \E second \in KeyOrders(DOMAIN x.Header) :
                storeCall' = [op |-> "serializeTwice", x |-> x,
                              text |-> SerializeText(x, first),
                              again |-> SerializeText(x, second)]
    /\ StoreUnchanged

\* C34: text-format Serialize is deterministic: serializing the same request
\* twice yields the same text, with the header lines in one fixed key order,
\* also for a request with two header keys.
C34_SerializeDeterministic ==
    storeCall.op = "serializeTwice" => storeCall.text = storeCall.again

\* ------------------------------------------------------------------------
\* internal/replay: loadResponse on the bytes of a catalog file
\* ------------------------------------------------------------------------
IsSpace(c) == c \in {" ", "\n", "\t", "\r"}

\* strings.Fields: the maximal runs of non-space characters.
RECURSIVE Fields(_)
Fields(str) ==
    IF Len(str) = 0 THEN <<>>
    ELSE IF IsSpace(str[1]) THEN Fields(Tail(str))
    ELSE LET stops == {i \in 1..Len(str) : IsSpace(str[i])}
             stop == IF stops = {} THEN Len(str) + 1
                     ELSE CHOOSE i \in stops : \A j \in stops : i <= j
         IN  <<SubSeq(str, 1, stop - 1)>> \o Fields(SubSeq(str, stop, Len(str)))

\* strconv.Atoi: an optional sign and at least one decimal digit.
StrconvAtoi(str) ==
    LET signed == Len(str) > 0 /\ str[1] \in {"+", "-"}
        digits == IF signed THEN Tail(str) ELSE str
    IN  IF ~IsDecimal(digits) THEN [err |-> TRUE, n |-> 0]
        ELSE [err |-> FALSE,
              n |-> IF signed /\ str[1] = "-" THEN 0 - Atoi(digits) ELSE Atoi(digits)]

\* A reader that leaves the payload unread.
ReadFullNothing(content, pos, size) ==
    [err |-> FALSE, data |-> <<>>, next |-> pos]

\* io.ReadFull(reader, make([]byte, size)) with the reader at position pos.
ReadFull(content, pos, size) ==
    IF pos + size - 1 > Len(content)
    THEN [err |-> TRUE, data |-> <<>>, next |-> Len(content) + 1]
    ELSE [err |-> FALSE, data |-> SubSeq(content, pos, pos + size - 1),
          next |-> pos + size]

\* The loop of loadResponse with the reader at position pos.  On a hit the
\* result holds the bytes that are handed to DeserializeResponse.
RECURSIVE ScanCatalog(_, _, _)
ScanCatalog(content, pos, expectedKey) ==
    LET feeds == {i \in pos..Len(content) : content[i] = "\n"}
    IN  IF feeds = {}
        THEN [err |-> "not found in file", data |-> <<>>]
        ELSE LET nl == CHOOSE i \in feeds : \A j \in feeds : i <= j
                 parts == Fields(SubSeq(content, pos, nl))
             IN  IF Len(parts) # 2
                 THEN ScanCatalog(content, nl + 1, expectedKey)
                 ELSE LET size == StrconvAtoi(parts[2])
                      IN  IF size.err
                          THEN [err |-> "invalid size format", data |-> <<>>]
                          ELSE IF size.n < 0
                          THEN [err |-> "invalid negative size", data |-> <<>>]
                          ELSE LET rd == ReadFull(content, nl + 1, size.n)
                               IN  IF rd.err
                                   THEN [err |-> "failed to read", data |-> <<>>]
                                   ELSE IF parts[1] = expectedKey
                                   THEN [err |-> "", data |-> rd.data]
                                   ELSE ScanCatalog(content, rd.next, expectedKey)

RespKey(sum) == sum \o <<".", "r", "e", "s", "p">>
ReqKey(sum) == sum \o <<".", "r", "e", "q">>

\* The catalog keys and the payloads of the catalogs that are scanned.  Two
\* payloads hold text that has the form of a delimiter line.
CatalogKeys == {RespKey(<<"h">>), ReqKey(<<"h">>), RespKey(<<"g">>)}

CatalogPayloads ==
    {<<>>, <<"o", "k">>, RespKey(<<"h">>) \o <<" ", "1", "\n", "X">>,
     <<"a", " ", "b", "\n">>}

CatalogEntries == [key : CatalogKeys, payload : CatalogPayloads]

MaxEntries == 3

\* One entry in the file: the delimiter line, the payload, the separator.
EntryBytes(e, sep) ==
    e.key \o <<" ">> \o Itoa(Len(e.payload)) \o <<"\n">> \o e.payload \o sep

RECURSIVE CatalogBytes(_, _)
CatalogBytes(entries, sep) ==
    IF Len(entries) = 0 THEN <<>>
    ELSE EntryBytes(entries[1], sep) \o CatalogBytes(Tail(entries), sep)

\* loadResponse is called on a catalog file for the digest h.
CallLoadResponse ==
    /\ mode = "store"
    /\ storeCall.op = "none"
    /\ \E n \in 0..MaxEntries :
          \E entries \in [1..n -> CatalogEntries] :
             \E sep \in {<<>>, <<"\n">>} :
                storeCall' = [op |-> "loadResponse", entries |-> entries,
                              key |-> RespKey(<<"h">>),
                              out |-> ScanCatalog(CatalogBytes(entries, sep), 1,
                                                  RespKey(<<"h">>))]
    /\ StoreUnchanged

\* C33: loadResponse returns the payload of the first catalog entry whose
\* key is <hash>.resp; the payload bytes of the other entries are skipped by
\* their declared length, so payload text is never read as a delimiter
\* line; the not-found error is returned exactly when no entry has the key.
C33_FirstMatchingEntry ==
    storeCall.op = "loadResponse" =>
        LET hits == {i \in 1..Len(storeCall.entries) :
                        storeCall.entries[i].key = storeCall.key}
        IN  /\ (hits = {}) <=> (storeCall.out.err = "not found in file")
            /\ hits # {} =>
                  LET first == CHOOSE i \in hits : \A j \in hits : i <= j
                  IN  /\ storeCall.out.err = ""
                      /\ storeCall.out.data = storeCall.entries[first].payload

\* An entry whose payload has the form of a delimiter line for the key
\* precedes the entry that is returned.
C33_Witness ==
    /\ storeCall.op = "loadResponse"
    /\ Len(storeCall.entries) = 2
    /\ storeCall.entries[1].key = RespKey(<<"g">>)
    /\ storeCall.entries[1].payload = RespKey(<<"h">>) \o <<" ", "1", "\n", "X">>
    /\ storeCall.entries[2].key = storeCall.key
    /\ storeCall.out.err = ""
    /\ storeCall.out.data = <<"o", "k">>

\* Transcript files: well-formed ones, a declared length of 0 with and
\* without bytes after it, digits that run to the end of the file, a
\* declared length that exceeds the file, a missing length.
TranscriptFiles ==
    {<<>>, TranscriptHW, TranscriptWHV, TranscriptBinary, TranscriptNoLength,
     TranscriptZero, <<">", "0", "\n">>, <<">", "0">>, <<">", "5">>, <<"<", "1", "2">>,
     <<">", "9", "\n", "h", "\n">>, <<"<">>, <<"x">>,
     <<">", "2", "\n", "h", "\n", "<", "0", "\n", "\n">>}

\* loadWebsocketChunks on the content of a transcript file.
CallLoadWebsocketChunks ==
    /\ mode = "store"
    /\ storeCall.op = "none"
    /\ \E content \in TranscriptFiles :
          storeCall' = [op |-> "loadChunks", content |-> content,
                        out |-> ChunkLoop(content, 1, <<>>)]
    /\ StoreUnchanged

\* C40: loadWebsocketChunks terminates on every file content and never
\* slices outside the content, also for a declared length of 0 and for
\* digits that run to the end of the file: it returns the chunks or an
\* error.
C40_ChunksOrError ==
    storeCall.op = "loadChunks" => storeCall.out.err # "panic"

\* C39: for every input of at least 6 lines the scan of Deserialize for two
\* consecutive empty lines reads no line past the last one, also when the
\* last line of the input is a single empty line.
C39_ScanStaysInRange ==
    (storeCall.op = "deserialize" /\ Len(SplitLines(storeCall.text)) >= 6) =>
        storeCall.out.err # "panic"

NextStore ==
    CallLoadWebsocketChunks \/ CallNewRecordedRequestJSON \/ CallSerializeTwice \/ CallLoadResponse \/ CallDeserialize \/ CallNewRecordedRequest \/ CallRedactHeaders \/ CallRequestRoundTrip \/ CallResponseRoundTrip \/ CallComputeSum \/ CallRedact

SpecStore == InitStore /\ [][NextStore]_vars

\* ------------------------------------------------------------------------
\* internal/record: the goroutines of proxyWebsocket
\* ------------------------------------------------------------------------
Dirs == {">", "<"}

Sides == {"client", "upstream"}

\* pumpWebsocket(clientConn, conn, c, quit, ">") and
\* pumpWebsocket(conn, clientConn, c, quit, "<")
Src(d) == IF d = ">" THEN "client" ELSE "upstream"

Dst(d) == IF d = ">" THEN "upstream" ELSE "client"

\* The k-th frame a peer sends.
PeerFrame(side, k) == Itoa(k) \o <<IF side = "client" THEN "h" ELSE "s">>

\* A connection: the frames its peer has sent that are not read yet, how
\* many frames the peer has sent, whether the peer has closed it and whether
\* the proxy has closed it.
OpenConn == [queue |-> <<>>, sent |-> 0, peerClosed |-> FALSE, closed |-> FALSE]

\* The deferred conn.Close() and clientConn.Close().
CloseAll(conn) == [s \in Sides |-> [conn[s] EXCEPT !.closed = TRUE]]

\* A writer that puts each chunk in front of the file.
FileWritePrepended(file, chunk) == <<chunk>> \o file

\* f.Write(buf): the chunk goes to the end of the file, in one piece.
FileWrite(file, chunk) == Append(file, chunk)

InitProxy ==
    /\ mode = "proxy"
    /\ prevRequestSHA = HeadSHA
    /\ seenFiles = {}
    /\ recordingDir = EmptyDir
    /\ replayLog = <<>>
    /\ wsConn = IdleConn
    /\ recordPrevRequestSHA = HeadSHA
    /\ recordLog = <<>>
    /\ recordWs = NoSession
    /\ nameCall = NoCall
    /\ storeCall = NoStoreCall
    /\ handlers = NoHandlers
    /\ proxy = [handler |-> "upgrade", quitCount |-> 0, file |-> <<>>,
                pump |-> [d \in Dirs |-> [pc |-> "idle", chunk |-> <<>>]],
                conn |-> [s \in Sides |-> OpenConn],
                readLog |-> [d \in Dirs |-> <<>>]]
    /\ replayRun = NoRun

ProxyUnchanged ==
    UNCHANGED <<mode, recordingDir, replayVars, recordVars, nameCall, storeCall,
                replayRun, handlers>>

\* upgradeConnectionToWebsocket, and the two go statements when it succeeds.
Upgrade ==
    /\ mode = "proxy"
    /\ proxy.handler = "upgrade"
    /\ \E ok \in BOOLEAN :
          proxy' = IF ok
                   THEN [proxy EXCEPT !.handler = "create",
                                      !.pump = [d \in Dirs |->
                                                  [pc |-> "read", chunk |-> <<>>]]]
                   ELSE [proxy EXCEPT !.handler = "returned"]
    /\ ProxyUnchanged

\* os.Create of the transcript file; on failure the handler returns and its
\* deferred calls close both connections.
Create ==
    /\ mode = "proxy"
    /\ proxy.handler = "create"
    /\ \E ok \in BOOLEAN :
          proxy' = IF ok
                   THEN [proxy EXCEPT !.handler = "loop"]
                   ELSE [proxy EXCEPT !.handler = "returned",
                                      !.conn = CloseAll(@)]
    /\ ProxyUnchanged

\* A peer sends a frame.
PeerSend ==
    /\ mode = "proxy"
    /\ proxy.handler \in {"create", "loop"}
    /\ \E s \in Sides :
          /\ ~proxy.conn[s].peerClosed
          /\ proxy.conn[s].sent < MaxFrames
          /\ proxy' = [proxy EXCEPT
                          !.conn[s].queue =
                              Append(@, PeerFrame(s, proxy.conn[s].sent + 1)),
                          !.conn[s].sent = @ + 1]
    /\ ProxyUnchanged

\* A peer closes its connection.
PeerClose ==
    /\ mode = "proxy"
    /\ proxy.handler \in {"create", "loop"}
    /\ \E s \in Sides :
          /\ ~proxy.conn[s].peerClosed
          /\ proxy' = [proxy EXCEPT !.conn[s].peerClosed = TRUE]
    /\ ProxyUnchanged

\* src.ReadMessage() returns in a pump: with an error when the proxy has
\* closed the connection or when the peer has closed it and nothing is left
\* to read, else with the next frame; the pump then builds the chunk.
PumpRead ==
    /\ mode = "proxy"
    /\ \E d \in Dirs :
          LET c == proxy.conn[Src(d)]
          IN  /\ proxy.pump[d].pc = "read"
              /\ IF c.closed \/ (c.queue = <<>> /\ c.peerClosed)
                 THEN proxy' = [proxy EXCEPT !.pump[d].pc = "quit"]
                 ELSE /\ c.queue # <<>>
                      /\ \E capacity \in FrameCapacities(Head(c.queue)) :
                            LET chunk == PumpChunk(d, Head(c.queue), capacity)
                            IN  proxy' = [proxy EXCEPT
                                            !.conn[Src(d)].queue = Tail(@),
                                            !.readLog[d] = Append(@, chunk),
                                            !.pump[d] = [pc |-> "send",
                                                         chunk |-> chunk]]
    /\ ProxyUnchanged

\* The select of the handler receives a chunk from c and writes it; a failed
\* write panics, which ends the handler and runs its deferred calls.
Record ==
    /\ mode = "proxy"
    /\ proxy.handler = "loop"
    /\ \E d \in Dirs, ok \in BOOLEAN :
          /\ proxy.pump[d].pc = "send"
          /\ proxy' = IF ok
                      THEN [proxy EXCEPT
                              !.file = FileWrite(@, proxy.pump[d].chunk),
                              !.pump[d].pc = "write"]
                      ELSE [proxy EXCEPT
                              !.handler = "panicked",
                              !.conn = CloseAll(@),
                              !.pump[d].pc = "write"]
    /\ ProxyUnchanged

\* dst.WriteMessage(msgType, buf) in a pump: it fails on a connection the
\* proxy has closed and may fail on one the peer has closed.
PumpWrite ==
    /\ mode = "proxy"
    /\ \E d \in Dirs, fails \in BOOLEAN :
          LET c == proxy.conn[Dst(d)]
          IN  /\ proxy.pump[d].pc = "write"
              /\ c.closed => fails
              /\ fails => (c.closed \/ c.peerClosed)
              /\ proxy' = [proxy EXCEPT
                              !.pump[d].pc = IF fails THEN "quit" ELSE "read"]
    /\ ProxyUnchanged

\* The select of the handler receives from quit; at the second signal the
\* handler returns and its deferred calls close both connections.
Quit ==
    /\ mode = "proxy"
    /\ proxy.handler = "loop"
    /\ \E d \in Dirs :
          /\ proxy.pump[d].pc = "quit"
          /\ proxy' = IF proxy.quitCount + 1 = 2
                      THEN [proxy EXCEPT !.quitCount = 2,
                                         !.pump[d].pc = "done",
                                         !.handler = "returned",
                                         !.conn = CloseAll(@)]
                      ELSE [proxy EXCEPT !.quitCount = @ + 1,
                                         !.pump[d].pc = "done"]
    /\ ProxyUnchanged

\* The steps of the handler and of the pump goroutines.
GoroutineStep == Upgrade \/ Create \/ PumpRead \/ Record \/ PumpWrite \/ Quit

NextProxy ==
    Upgrade \/ Create \/ PeerSend \/ PeerClose \/ PumpRead \/ Record
        \/ PumpWrite \/ Quit

\* The Go scheduler runs every goroutine that can take a step; the peers
\* are not obliged to send or to close.
SpecProxy == InitProxy /\ [][NextProxy]_vars /\ WF_vars(GoroutineStep)

\* The handler has returned or panicked.
HandlerExited == proxy.handler \in {"returned", "panicked"}

PumpsStarted == \A d \in Dirs : proxy.pump[d].pc # "idle"

\* C25: in a recorded WebSocket session, once either the client or the
\* upstream closes its connection, the recording handler eventually returns:
\* both pump goroutines have signalled termination and both connections are
\* closed.
C25_CloseLeadsToReturn ==
    (\E s \in Sides : proxy.conn[s].peerClosed)
        ~> (/\ proxy.handler = "returned"
            /\ \A d \in Dirs : proxy.pump[d].pc = "done"
            /\ \A s \in Sides : proxy.conn[s].closed)

\* The chunks of one direction in a sequence of chunks.
OfDir(chunks, d) == SelectSeq(chunks, LAMBDA chunk : chunk[1] = d)

IsPrefix(a, b) == Len(a) <= Len(b) /\ a = SubSeq(b, 1, Len(a))

\* C27: in the recorded transcript the frames of each direction appear in
\* exactly the order in which they were read from the source of that
\* direction, under every interleaving of the two pumps, and each frame is
\* one whole record of the file; when the handler returns after both quit
\* signals every frame that was read is in the file.
C27_DirectionOrderKept ==
    \A d \in Dirs :
        /\ IsPrefix(OfDir(proxy.file, d), proxy.readLog[d])
        /\ proxy.quitCount = 2 => OfDir(proxy.file, d) = proxy.readLog[d]

\* Both pumps have relayed two frames each, the handler has returned, and
\* the records of the two directions alternate in the file.
C27_Witness ==
    /\ proxy.handler = "returned"
    /\ proxy.quitCount = 2
    /\ Len(proxy.file) = 4
    /\ \A d \in Dirs : Len(OfDir(proxy.file, d)) = 2
    /\ proxy.file[1][1] = "<"
    /\ proxy.file[2][1] = ">"
    /\ proxy.file[3][1] = "<"

\* C28: the handler returns only after it has received one termination
\* signal from each of the two pumps, so on every path out of the handler,
\* failure to create the transcript file included, no pump is left blocked
\* on the log channel or on the quit channel.
C28_ReturnsAfterBothQuit ==
    (HandlerExited /\ PumpsStarted) =>
        /\ proxy.quitCount = 2
        /\ \A d \in Dirs : proxy.pump[d].pc \notin {"send", "quit"}

\* ------------------------------------------------------------------------
\* internal/replay: Replay and the servers it starts
\* ------------------------------------------------------------------------
\* ReplayHTTPServer.Start: ListenAndServe serves until it fails, and its
\* error is passed to panic; no error is ever returned.
Start(listenFails) ==
    IF listenFails THEN [panic |-> TRUE, err |-> FALSE]
    ELSE [panic |-> FALSE, err |-> FALSE]

InitReplayRun ==
    /\ mode = "replayRun"
    /\ prevRequestSHA = HeadSHA
    /\ seenFiles = {}
    /\ recordingDir = EmptyDir
    /\ replayLog = <<>>
    /\ wsConn = IdleConn
    /\ recordPrevRequestSHA = HeadSHA
    /\ recordLog = <<>>
    /\ recordWs = NoSession
    /\ nameCall = NoCall
    /\ storeCall = NoStoreCall
    /\ handlers = NoHandlers
    /\ proxy = NoProxy
    /\ \E n \in 1..MaxEndpoints, dirExists \in BOOLEAN :
          replayRun = [main |-> "stat", dirExists |-> dirExists,
                       result |-> <<>>, errChan |-> <<>>, crashed |-> FALSE,
                       server |-> [ep \in 1..n |-> "none"]]

RunUnchanged ==
    UNCHANGED <<mode, recordingDir, replayVars, recordVars, nameCall, storeCall,
                proxy, handlers>>

\* os.Stat of the recording directory, then one go statement per endpoint.
ReplayStat ==
    /\ mode = "replayRun"
    /\ replayRun.main = "stat"
    /\ replayRun' =
          IF ~replayRun.dirExists
          THEN [replayRun EXCEPT !.main = "returned",
                                 !.result = <<"recording directory does not exist">>]
          ELSE [replayRun EXCEPT !.main = "select",
                                 !.server = [ep \in DOMAIN @ |-> "starting"]]
    /\ RunUnchanged

\* The goroutine of one endpoint calls server.Start(): the server serves,
\* or Start panics and the process ends, or Start returns an error, which
\* the goroutine sends to errChan with the name of the endpoint.
ServerStart ==
    /\ mode = "replayRun"
    /\ ~replayRun.crashed
    /\ \E ep \in DOMAIN replayRun.server, listenFails \in BOOLEAN :
          LET started == Start(listenFails)
          IN  /\ replayRun.server[ep] = "starting"
              /\ replayRun' =
                    IF started.panic
                    THEN [replayRun EXCEPT !.server[ep] = "panicked",
                                           !.crashed = TRUE]
                    ELSE IF started.err
                    THEN [replayRun EXCEPT !.server[ep] = "failed",
                                           !.errChan = Append(@, <<"replay error for", ep>>)]
                    ELSE [replayRun EXCEPT !.server[ep] = "serving"]
    /\ RunUnchanged

\* ListenAndServe fails in a server that was serving.
ServerFail ==
    /\ mode = "replayRun"
    /\ ~replayRun.crashed
    /\ \E ep \in DOMAIN replayRun.server :
          /\ replayRun.server[ep] = "serving"
          /\ replayRun' = [replayRun EXCEPT !.server[ep] = "panicked",
                                             !.crashed = TRUE]
    /\ RunUnchanged

\* The select of Replay: an error that is in errChan already is returned,
\* else the default case blocks in select {}.
ReplaySelect ==
    /\ mode = "replayRun"
    /\ ~replayRun.crashed
    /\ replayRun.main = "select"
    /\ replayRun' =
          IF replayRun.errChan # <<>>
          THEN [replayRun EXCEPT !.main = "returned",
                                 !.result = Head(replayRun.errChan),
                                 !.errChan = Tail(@)]
          ELSE [replayRun EXCEPT !.main = "blocked"]
    /\ RunUnchanged

NextReplayRun == ReplayStat \/ ServerStart \/ ServerFail \/ ReplaySelect

SpecReplayRun ==
    InitReplayRun /\ [][NextReplayRun]_vars
        /\ WF_vars(ReplayStat \/ ServerStart \/ ReplaySelect)

\* The endpoints whose server has failed to start or to serve.
FailedServers ==
    {ep \in DOMAIN replayRun.server :
        replayRun.server[ep] \in {"panicked", "failed"}}

\* C26: Replay returns the first error reported by the replay server of any
\* endpoint: if the Start of a server fails, Replay returns an error naming
\* that endpoint and does not block forever.
C26_StartFailureIsReturned ==
    (FailedServers # {})
        ~> (/\ replayRun.main = "returned"
            /\ \E ep \in FailedServers :
                  replayRun.result = <<"replay error for", ep>>)

\* ------------------------------------------------------------------------
\* internal/replay: handleRequest in the goroutines of net/http
\* ------------------------------------------------------------------------
\* http.Server runs the handler of every connection in a goroutine of its
\* own.  The fields prevRequestSHA and seenFiles of the server are shared
\* by these goroutines and no lock guards them.
Goroutines == {1, 2}

ConcurrentRequests == <<ReqPlain, ReqA, ReqAPost, ReqB, ReqBad, ReqHealth, ReqSecret>>

ConcurrentRecordings == <<DirChained, DirMixed>>

InitConcurrent ==
    /\ mode = "concurrent"
    /\ prevRequestSHA = HeadSHA
    /\ seenFiles = {}
    /\ \E d \in 1..Len(ConcurrentRecordings) : recordingDir = ConcurrentRecordings[d]
    /\ replayLog = <<>>
    /\ wsConn = IdleConn
    /\ recordPrevRequestSHA = HeadSHA
    /\ recordLog = <<>>
    /\ recordWs = NoSession
    /\ nameCall = NoCall
    /\ storeCall = NoStoreCall
    /\ proxy = NoProxy
    /\ replayRun = NoRun
    /\ handlers = [phase |-> "serial"]

ConcurrentUnchanged ==
    UNCHANGED <<mode, recordingDir, wsConn, recordVars, nameCall, storeCall, proxy,
                replayRun>>

\* A request that is handled alone, before the two connections arrive.
SerialRequest ==
    /\ mode = "concurrent"
    /\ handlers.phase = "serial"
    /\ Len(replayLog) < 1
    /\ \E i \in 1..Len(ConcurrentRequests) :
          \E out \in {ReplayOutcome(ConcurrentRequests[i], prevRequestSHA, seenFiles,
                                    recordingDir, FALSE, FALSE)} :
             /\ replayLog' = Append(replayLog, out.entry)
             /\ prevRequestSHA' = out.prev
             /\ seenFiles' = out.seen
    /\ UNCHANGED handlers
    /\ ConcurrentUnchanged

\* Two connections are accepted; each handler goroutine gets its request.
Accept ==
    /\ mode = "concurrent"
    /\ handlers.phase = "serial"
    /\ \E reqs \in [Goroutines -> 1..Len(ConcurrentRequests)] :
          handlers' = [phase |-> "serving",
                       base |-> [prev |-> prevRequestSHA, seen |-> seenFiles],
                       run |-> [g \in Goroutines |->
                                  [pc |-> "accepted", req |-> ConcurrentRequests[reqs[g]],
                                   prev |-> HeadSHA, entry |-> <<>>]]]
    /\ UNCHANGED <<prevRequestSHA, seenFiles, replayLog>>
    /\ ConcurrentUnchanged

At(g, pc) ==
    /\ mode = "concurrent"
    /\ handlers.phase = "serving"
    /\ handlers.run[g].pc = pc

\* createRedactedRequest reads r.prevRequestSHA.
ReadChainHead(g) ==
    /\ At(g, "accepted")
    /\ handlers' = [handlers EXCEPT !.run[g].pc = "created",
                                    !.run[g].prev = prevRequestSHA]
    /\ UNCHANGED <<prevRequestSHA, seenFiles, replayLog>>
    /\ ConcurrentUnchanged

\* The file name is looked up in r.seenFiles; the digest is computed, the
\* response is loaded and written.
Lookup(g) ==
    /\ At(g, "created")
    /\ \E out \in {ReplayOutcome(handlers.run[g].req, handlers.run[g].prev, seenFiles,
                                  recordingDir, FALSE, FALSE)} :
          /\ handlers' = [handlers EXCEPT
                             !.run[g].pc = IF out.entry.outcome = "ok"
                                           THEN "written" ELSE "returned",
                             !.run[g].entry = out.entry]
          /\ replayLog' = Append(replayLog, out.entry)
    /\ UNCHANGED <<prevRequestSHA, seenFiles>>
    /\ ConcurrentUnchanged

\* if fileName != shaSum { r.prevRequestSHA = shaSum }
StoreChainHead(g) ==
    /\ At(g, "written")
    /\ prevRequestSHA' = AdvanceChain(prevRequestSHA, handlers.run[g].entry.fileName,
                                      handlers.run[g].entry.shaSum)
    /\ handlers' = [handlers EXCEPT !.run[g].pc = "advanced"]
    /\ UNCHANGED <<seenFiles, replayLog>>
    /\ ConcurrentUnchanged

\* r.seenFiles[fileName] = struct{}{}
StoreSeen(g) ==
    /\ At(g, "advanced")
    /\ seenFiles' = seenFiles \cup {handlers.run[g].entry.fileName}
    /\ handlers' = [handlers EXCEPT !.run[g].pc = "returned"]
    /\ UNCHANGED <<prevRequestSHA, replayLog>>
    /\ ConcurrentUnchanged

\* A map write that overlaps another access of the map: the Go runtime can
\* stop the process with "concurrent map read and map write" or
\* "concurrent map writes".
MapFault ==
    /\ mode = "concurrent"
    /\ handlers.phase = "serving"
    /\ \E g, h \in Goroutines :
          /\ g # h
          /\ handlers.run[g].pc = "advanced"
          /\ handlers.run[h].pc \in {"created", "advanced"}
    /\ handlers' = [handlers EXCEPT !.phase = "crashed"]
    /\ UNCHANGED <<prevRequestSHA, seenFiles, replayLog>>
    /\ ConcurrentUnchanged

HandlerStep ==
    \E g \in Goroutines :
        ReadChainHead(g) \/ Lookup(g) \/ StoreChainHead(g) \/ StoreSeen(g)

NextConcurrent == SerialRequest \/ Accept \/ HandlerStep \/ MapFault

SpecConcurrent == InitConcurrent /\ [][NextConcurrent]_vars

\* The two requests handled one after the other, first a and then b, from
\* the state in which the connections were accepted.
SerialExecution(a, b) ==
    LET first == ReplayOutcome(handlers.run[a].req, handlers.base.prev,
                               handlers.base.seen, recordingDir, FALSE, FALSE)
        second == ReplayOutcome(handlers.run[b].req, first.prev, first.seen,
                                recordingDir, FALSE, FALSE)
    IN  [shaSum |-> (a :> first.entry.shaSum) @@ (b :> second.entry.shaSum),
         prev |-> second.prev, seen |-> second.seen]

BothReturned ==
    /\ handlers.phase = "serving"
    /\ \A g \in Goroutines : handlers.run[g].pc = "returned"

\* C35: when two requests to the same endpoint are handled concurrently in
\* replay, the digests they compute, the final chain head and the final set
\* of seen files equal those of some serial execution of the two requests.
C35_ConcurrentIsSerializable ==
    BothReturned =>
        \E a, b \in Goroutines :
            /\ a # b
            /\ \E ser \in {SerialExecution(a, b)} :
                  /\ \A g \in Goroutines : handlers.run[g].entry.shaSum = ser.shaSum[g]
                  /\ prevRequestSHA = ser.prev
                  /\ seenFiles = ser.seen

====
